---- MODULE Spec2Model ----
(***************************************************************************)
(* Verification model of counterparty-core.                                *)
(*                                                                         *)
(* Part 1: APSWConnectionPool (lib/utils/database.py): the bounded,        *)
(* per-thread caching pool of read-only connections.  One action per       *)
(* atomic step of connection(), _create_connection_with_limit(),           *)
(* _release_connection() and close().  self.lock is a mutex; self.closed   *)
(* is read and written without it, so every action holds at most one       *)
(* access to closed.                                                       *)
(***************************************************************************)
EXTENDS Integers, Sequences, FiniteSets, TLC

\* ---- bounds of the model ----
NumThreads == 2
MaxOpen == 2
MaxCount == 2
MaxCap == 1
MaxPoolSize == 1

Threads == 1..NumThreads
NoThread == 0

VARIABLES
    closed,                 \* self.closed
    connection_count,       \* self.connection_count
    peak_connection_count,  \* self.peak_connection_count
    max_connections,        \* self.max_connections (0 = unlimited)
    pool_size,              \* config.DB_CONNECTION_POOL_SIZE
    lockOwner,              \* holder of self.lock, NoThread when free
    waiters,                \* threads inside connection_available.wait()
    conns,                  \* the open connections, by id
    stack,                  \* thread_local.connections of each thread
    held,                   \* the db of each open connection() scope of a thread
    pc,                     \* where each thread is
    site,                   \* which branch of connection() the current request took
    result                  \* how the latest request of each thread ended

poolVars == <<closed, connection_count, peak_connection_count, max_connections,
              pool_size, lockOwner, waiters, conns, stack, held, pc, site, result>>

\* the ledger store and the block processor
VARIABLES
    chain,          \* the blocks of the external chain source
    blocks,         \* table blocks: one row per applied block, by block_index
    transactions,   \* table transactions
    issuances,      \* table issuances
    balances,       \* table balances: the rows of UTXO balances
    orders,         \* table orders
    messages,       \* table messages: the event journal
    asset_cache,    \* the AssetCache singleton (exists = FALSE: no instance)
    utxo_cache,     \* the UTXOBalancesCache singleton
    orders_cache,   \* the OrdersCache singleton
    printed,        \* the last message of a rollback or reparse, printed or logged
    mode,           \* state of the block processor
    target,         \* the tip the running catch-up goes back to
    recorded,       \* the hashes of each block as first computed
    rollbacks,      \* rollbacks and reparses done so far
    server,         \* where run_server() is ("down": no process)
    observed,       \* the last block row a reader of the API got
    announced,      \* blocks announced over a diverging parent, no reorg repair since
    changes,        \* changes of the source's chain so far
    crashes,        \* crashes so far
    verifier,       \* one call of check.consensus_hash: its arguments, the rows it reads, its outcome
    parser,         \* the calls of blocks.parse_tx: the last transaction and what was returned
    cachecall,      \* the calls made on one cache: the last one, its value, the recent ones
    traversal,      \* UTXOBalancesCache._add_known_sources_descendants: pending_utxos, processed
    destructions,   \* table destructions: read when the asset cache is built; no modelled
                    \* transaction writes it
    current_state,  \* CurrentState(), as the orders cache called on its own reads it
    watcher,        \* the BlockchainWatcher: its mempool batch, its maps, its sockets
    threads,        \* start_all(): the main thread, the server thread, self.stopped
    stats           \* what the last call of get_stats() on the pool returned

ledgerVars == <<chain, blocks, transactions, issuances, balances, orders, messages,
                asset_cache, utxo_cache, orders_cache, printed,
                mode, target, recorded, rollbacks,
                server, observed, announced, changes, crashes, verifier, parser,
                cachecall, traversal, destructions, current_state, watcher, threads,
                stats>>

\* the server process and the follower
followVars == <<server, observed, announced, changes, crashes>>

\* single calls of the functions checked on their own
unitVars == <<verifier, parser, cachecall, traversal, destructions, current_state,
              watcher, threads, stats>>

\* the follower's own state, the threads of start_all(), the pool's statistics
procVars == <<watcher, threads, stats>>

\* the tables of the store and the caches over them
storeVars == <<blocks, transactions, issuances, balances, orders, messages,
               asset_cache, utxo_cache, orders_cache>>

vars == <<poolVars, ledgerVars>>

\* ---- helpers ----
Last(s) == s[Len(s)]
Front(s) == SubSeq(s, 1, Len(s) - 1)
Range(s) == {s[i] : i \in 1..Len(s)}

\* db.close(): the connection is gone
CloseConn(cs, id) == [i \in DOMAIN cs \ {id} |-> cs[i]]
CloseAll(cs, ids) == [i \in DOMAIN cs \ ids |-> cs[i]]

\* variant: the connection is opened without SQLITE_OPEN_READONLY
get_db_connection_Writable(t, pooled) ==
    [owner |-> t, pooled |-> pooled, read_only |-> FALSE]

\* get_db_connection(self.db_file, read_only=True, check_wal=False)
get_db_connection(t, pooled) ==
    [owner |-> t, pooled |-> pooled, read_only |-> TRUE]

\* the identity of the next connection object
NewId == CHOOSE i \in 1..MaxOpen : i \notin DOMAIN conns /\ \A j \in 1..(i - 1) : j \in DOMAIN conns
OpenConn(cs, rec) == [i \in DOMAIN cs \cup {NewId} |-> IF i = NewId THEN rec ELSE cs[i]]

\* requests that will still open a connection
InFlight == {t \in Threads : pc[t] \in {"cc_enter", "waiting", "woken", "cc_recheck", "cc_create"}}
Uncounted == {t \in Threads : pc[t] \in {"cc_enter", "waiting", "woken", "cc_recheck"}}
CanCreate(n) ==
    /\ n + Cardinality(InFlight) < MaxOpen
    /\ connection_count + Cardinality(Uncounted) < MaxCount

\* the loop condition of _create_connection_with_limit
MustWait == max_connections > 0 /\ connection_count >= max_connections /\ ~closed

PoolInit ==
    /\ closed = FALSE
    /\ connection_count = 0
    /\ peak_connection_count = 0
    /\ max_connections \in 0..MaxCap
    /\ pool_size \in 0..MaxPoolSize
    /\ lockOwner = NoThread
    /\ waiters = {}
    /\ conns = << >>
    /\ stack = [t \in Threads |-> <<>>]
    /\ held = [t \in Threads |-> <<>>]
    /\ pc = [t \in Threads |-> "idle"]
    /\ site = [t \in Threads |-> "none"]
    /\ result = [t \in Threads |-> "none"]

\* ---- connection(): entry ----

\* variant: the temporary connection is counted
ConnectionClosedPool_Counted(t) ==
    /\ pc[t] = "idle" /\ Cardinality(DOMAIN conns) + Cardinality(InFlight) < MaxOpen
    /\ closed
    /\ conns' = OpenConn(conns, get_db_connection(t, FALSE))
    /\ held' = [held EXCEPT ![t] = Append(@, NewId)]
    /\ site' = [site EXCEPT ![t] = "closed"]
    /\ result' = [result EXCEPT ![t] = "ephemeral"]
    /\ connection_count' = connection_count + 1
    /\ UNCHANGED <<closed, peak_connection_count, max_connections,
                   pool_size, lockOwner, waiters, stack, pc>>

    /\ UNCHANGED ledgerVars
\* closed pool: a temporary connection, yielded at once
ConnectionClosedPool(t) ==
    /\ pc[t] = "idle" /\ Cardinality(DOMAIN conns) + Cardinality(InFlight) < MaxOpen
    /\ closed
    /\ conns' = OpenConn(conns, get_db_connection(t, FALSE))
    /\ held' = [held EXCEPT ![t] = Append(@, NewId)]
    /\ site' = [site EXCEPT ![t] = "closed"]
    /\ result' = [result EXCEPT ![t] = "ephemeral"]
    /\ UNCHANGED <<closed, connection_count, peak_connection_count, max_connections,
                   pool_size, lockOwner, waiters, stack, pc>>

    /\ UNCHANGED ledgerVars
\* variant: one stack of cached connections for all threads
ConnectionReuse_AnyStack(t) ==
    /\ pc[t] = "idle"
    /\ ~closed
    /\ \E u \in Threads :
          /\ stack[u] # <<>>
          /\ stack' = [stack EXCEPT ![u] = Front(@)]
          /\ held' = [held EXCEPT ![t] = Append(@, Last(stack[u]))]
    /\ site' = [site EXCEPT ![t] = "reuse"]
    /\ result' = [result EXCEPT ![t] = "ok"]
    /\ UNCHANGED <<closed, connection_count, peak_connection_count, max_connections,
                   pool_size, lockOwner, waiters, conns, pc>>
    /\ UNCHANGED ledgerVars

\* reuse: pop the thread's stack, the probe succeeds
ConnectionReuse(t) ==
    /\ pc[t] = "idle"
    /\ ~closed
    /\ stack[t] # <<>>
    /\ stack' = [stack EXCEPT ![t] = Front(@)]
    /\ held' = [held EXCEPT ![t] = Append(@, Last(stack[t]))]
    /\ site' = [site EXCEPT ![t] = "reuse"]
    /\ result' = [result EXCEPT ![t] = "ok"]
    /\ UNCHANGED <<closed, connection_count, peak_connection_count, max_connections,
                   pool_size, lockOwner, waiters, conns, pc>>

    /\ UNCHANGED ledgerVars
\* reuse: the probe raises ThreadingViolationError or BusyError
ConnectionReuseInvalid(t) ==
    /\ pc[t] = "idle" /\ CanCreate(Cardinality(DOMAIN conns) - 1)
    /\ ~closed
    /\ stack[t] # <<>>
    /\ stack' = [stack EXCEPT ![t] = Front(@)]
    /\ conns' = CloseConn(conns, Last(stack[t]))
    /\ pc' = [pc EXCEPT ![t] = "cc_enter"]
    /\ site' = [site EXCEPT ![t] = "replace"]
    /\ result' = [result EXCEPT ![t] = "pending"]
    /\ UNCHANGED <<closed, connection_count, peak_connection_count, max_connections,
                   pool_size, lockOwner, waiters, held>>

    /\ UNCHANGED ledgerVars
\* nothing cached: create
ConnectionNew(t) ==
    /\ pc[t] = "idle" /\ CanCreate(Cardinality(DOMAIN conns))
    /\ ~closed
    /\ stack[t] = <<>>
    /\ pc' = [pc EXCEPT ![t] = "cc_enter"]
    /\ site' = [site EXCEPT ![t] = "fresh"]
    /\ result' = [result EXCEPT ![t] = "pending"]
    /\ UNCHANGED <<closed, connection_count, peak_connection_count, max_connections,
                   pool_size, lockOwner, waiters, conns, stack, held>>

    /\ UNCHANGED ledgerVars
\* ---- _create_connection_with_limit() ----

\* count the new connection, under the lock
CountConnection(t) ==
    /\ connection_count' = connection_count + 1
    /\ peak_connection_count' =
          IF connection_count + 1 > peak_connection_count
          THEN connection_count + 1 ELSE peak_connection_count
    /\ pc' = [pc EXCEPT ![t] = "cc_create"]
    /\ UNCHANGED waiters

\* connection_available.wait(timeout=30): release the lock and block
StartWait(t) ==
    /\ waiters' = waiters \cup {t}
    /\ pc' = [pc EXCEPT ![t] = "waiting"]
    /\ UNCHANGED <<connection_count, peak_connection_count>>

\* take the lock, test the loop condition once
CreateEnter(t) ==
    /\ pc[t] = "cc_enter"
    /\ lockOwner = NoThread
    /\ IF MustWait THEN StartWait(t) ELSE CountConnection(t)
    /\ UNCHANGED <<closed, max_connections, pool_size, lockOwner, conns, stack, held,
                   site, result>>

    /\ UNCHANGED ledgerVars
\* the 30 s of wait() pass without a notify
WaitTimeout(t) ==
    /\ pc[t] = "waiting"
    /\ t \in waiters
    /\ waiters' = waiters \ {t}
    /\ pc' = [pc EXCEPT ![t] = "timedout"]
    /\ UNCHANGED <<closed, connection_count, peak_connection_count, max_connections,
                   pool_size, lockOwner, conns, stack, held, site, result>>

    /\ UNCHANGED ledgerVars
\* variant: the timed-out request also gives a connection back
TimeoutRaise_Release(t) ==
    /\ pc[t] = "timedout"
    /\ lockOwner = NoThread
    /\ pc' = [pc EXCEPT ![t] = "idle"]
    /\ result' = [result EXCEPT ![t] = "DatabaseError_timeout"]
    /\ connection_count' = connection_count - 1
    /\ UNCHANGED <<closed, peak_connection_count, max_connections,
                   pool_size, lockOwner, waiters, conns, stack, held, site>>

    /\ UNCHANGED ledgerVars
\* wait() returned False: raise DatabaseError (timeout)
TimeoutRaise(t) ==
    /\ pc[t] = "timedout"
    /\ lockOwner = NoThread
    /\ pc' = [pc EXCEPT ![t] = "idle"]
    /\ result' = [result EXCEPT ![t] = "DatabaseError_timeout"]
    /\ UNCHANGED <<closed, connection_count, peak_connection_count, max_connections,
                   pool_size, lockOwner, waiters, conns, stack, held, site>>

    /\ UNCHANGED ledgerVars
\* wait() returned True: retake the lock, test closed
WakeUp(t) ==
    /\ pc[t] = "woken"
    /\ lockOwner = NoThread
    /\ IF closed
       THEN /\ pc' = [pc EXCEPT ![t] = "idle"]
            /\ result' = [result EXCEPT ![t] = "DatabaseError_closed"]
            /\ UNCHANGED lockOwner
       ELSE /\ pc' = [pc EXCEPT ![t] = "cc_recheck"]
            /\ lockOwner' = t
            /\ UNCHANGED result
    /\ UNCHANGED <<closed, connection_count, peak_connection_count, max_connections,
                   pool_size, waiters, conns, stack, held, site>>

    /\ UNCHANGED ledgerVars
\* back at the top of the loop, still holding the lock
Recheck(t) ==
    /\ pc[t] = "cc_recheck"
    /\ lockOwner = t
    /\ IF MustWait THEN StartWait(t) ELSE CountConnection(t)
    /\ lockOwner' = NoThread
    /\ UNCHANGED <<closed, max_connections, pool_size, conns, stack, held, site, result>>

    /\ UNCHANGED ledgerVars
\* return get_db_connection(...), outside the lock; connection() yields it
CreateConnection(t) ==
    /\ pc[t] = "cc_create"
    /\ conns' = OpenConn(conns, get_db_connection(t, TRUE))
    /\ held' = [held EXCEPT ![t] = Append(@, NewId)]
    /\ pc' = [pc EXCEPT ![t] = "idle"]
    /\ result' = [result EXCEPT ![t] = "ok"]
    /\ UNCHANGED <<closed, connection_count, peak_connection_count, max_connections,
                   pool_size, lockOwner, waiters, stack, site>>

    /\ UNCHANGED ledgerVars
\* ---- connection(): scope exit ----

\* the temporary connection of a closed pool
ExitEphemeral(t) ==
    /\ pc[t] = "idle" /\ held[t] # <<>>
    /\ ~conns[Last(held[t])].pooled
    /\ conns' = CloseConn(conns, Last(held[t]))
    /\ held' = [held EXCEPT ![t] = Front(@)]
    /\ site' = [site EXCEPT ![t] = "none"]
    /\ result' = [result EXCEPT ![t] = "none"]
    /\ UNCHANGED <<closed, connection_count, peak_connection_count, max_connections,
                   pool_size, lockOwner, waiters, stack, pc>>

    /\ UNCHANGED ledgerVars
\* pool closed meanwhile
ExitClosed(t) ==
    /\ pc[t] = "idle" /\ held[t] # <<>>
    /\ conns[Last(held[t])].pooled
    /\ closed
    /\ conns' = CloseConn(conns, Last(held[t]))
    /\ held' = [held EXCEPT ![t] = Front(@)]
    /\ pc' = [pc EXCEPT ![t] = "release"]
    /\ site' = [site EXCEPT ![t] = "none"]
    /\ result' = [result EXCEPT ![t] = "none"]
    /\ UNCHANGED <<closed, connection_count, peak_connection_count, max_connections,
                   pool_size, lockOwner, waiters, stack>>

    /\ UNCHANGED ledgerVars
\* variant: off-by-one capacity test
ExitCache_OffByOne(t) ==
    /\ pc[t] = "idle" /\ held[t] # <<>>
    /\ conns[Last(held[t])].pooled
    /\ ~closed
    /\ Len(stack[t]) <= pool_size
    /\ stack' = [stack EXCEPT ![t] = Append(@, Last(held[t]))]
    /\ held' = [held EXCEPT ![t] = Front(@)]
    /\ site' = [site EXCEPT ![t] = "none"]
    /\ result' = [result EXCEPT ![t] = "none"]
    /\ UNCHANGED <<closed, connection_count, peak_connection_count, max_connections,
                   pool_size, lockOwner, waiters, conns, pc>>

    /\ UNCHANGED ledgerVars
\* room on the thread's stack
ExitCache(t) ==
    /\ pc[t] = "idle" /\ held[t] # <<>>
    /\ conns[Last(held[t])].pooled
    /\ ~closed
    /\ Len(stack[t]) < pool_size
    /\ stack' = [stack EXCEPT ![t] = Append(@, Last(held[t]))]
    /\ held' = [held EXCEPT ![t] = Front(@)]
    /\ site' = [site EXCEPT ![t] = "none"]
    /\ result' = [result EXCEPT ![t] = "none"]
    /\ UNCHANGED <<closed, connection_count, peak_connection_count, max_connections,
                   pool_size, lockOwner, waiters, conns, pc>>

    /\ UNCHANGED ledgerVars
\* the thread's stack is full
ExitFull(t) ==
    /\ pc[t] = "idle" /\ held[t] # <<>>
    /\ conns[Last(held[t])].pooled
    /\ ~closed
    /\ ~(Len(stack[t]) < pool_size)
    /\ conns' = CloseConn(conns, Last(held[t]))
    /\ held' = [held EXCEPT ![t] = Front(@)]
    /\ pc' = [pc EXCEPT ![t] = "release"]
    /\ site' = [site EXCEPT ![t] = "none"]
    /\ result' = [result EXCEPT ![t] = "none"]
    /\ UNCHANGED <<closed, connection_count, peak_connection_count, max_connections,
                   pool_size, lockOwner, waiters, stack>>

    /\ UNCHANGED ledgerVars
\* connection_available.notify(): wake one waiter, if any
Notify(t) ==
    IF waiters = {}
    THEN /\ pc' = [pc EXCEPT ![t] = "idle"]
         /\ UNCHANGED waiters
    ELSE \E w \in waiters :
            /\ waiters' = waiters \ {w}
            /\ pc' = [pc EXCEPT ![t] = "idle", ![w] = "woken"]

\* _release_connection()
Release(t) ==
    /\ pc[t] = "release"
    /\ lockOwner = NoThread
    /\ connection_count' = connection_count - 1
    /\ Notify(t)
    /\ UNCHANGED <<closed, peak_connection_count, max_connections, pool_size, lockOwner,
                   conns, stack, held, site, result>>

    /\ UNCHANGED ledgerVars
\* ---- close() ----

\* self.closed = True
Close(t) ==
    /\ pc[t] = "idle"
    /\ closed' = TRUE
    /\ pc' = [pc EXCEPT ![t] = "close_notify"]
    /\ site' = [site EXCEPT ![t] = "none"]
    /\ result' = [result EXCEPT ![t] = "none"]
    /\ UNCHANGED <<connection_count, peak_connection_count, max_connections, pool_size,
                   lockOwner, waiters, conns, stack, held>>

    /\ UNCHANGED ledgerVars
\* variant: close() forgets notify_all()
CloseNotify_NoWake(t) ==
    /\ pc[t] = "close_notify"
    /\ lockOwner = NoThread
    /\ pc' = [pc EXCEPT ![t] = "close_local"]
    /\ UNCHANGED <<closed, connection_count, peak_connection_count, max_connections,
                   pool_size, lockOwner, waiters, conns, stack, held, site, result>>

    /\ UNCHANGED ledgerVars
\* with self.connection_available: notify_all()
CloseNotify(t) ==
    /\ pc[t] = "close_notify"
    /\ lockOwner = NoThread
    /\ waiters' = {}
    /\ pc' = [u \in Threads |-> IF u = t THEN "close_local"
                                ELSE IF u \in waiters THEN "woken" ELSE pc[u]]
    /\ UNCHANGED <<closed, connection_count, peak_connection_count, max_connections,
                   pool_size, lockOwner, conns, stack, held, site, result>>

    /\ UNCHANGED ledgerVars
\* variant: close() closes the cached connections of every thread
CloseLocal_AllThreads(t) ==
    /\ pc[t] = "close_local"
    /\ conns' = CloseAll(conns, UNION {Range(stack[u]) : u \in Threads})
    /\ stack' = [u \in Threads |-> <<>>]
    /\ pc' = [pc EXCEPT ![t] = "idle"]
    /\ UNCHANGED <<closed, connection_count, peak_connection_count, max_connections,
                   pool_size, lockOwner, waiters, held, site, result>>

    /\ UNCHANGED ledgerVars
\* close and clear the connections cached by the calling thread
CloseLocal(t) ==
    /\ pc[t] = "close_local"
    /\ conns' = CloseAll(conns, Range(stack[t]))
    /\ stack' = [stack EXCEPT ![t] = <<>>]
    /\ pc' = [pc EXCEPT ![t] = "idle"]
    /\ UNCHANGED <<closed, connection_count, peak_connection_count, max_connections,
                   pool_size, lockOwner, waiters, held, site, result>>

    /\ UNCHANGED ledgerVars
\* ---- get_stats() ----

\* so many calls of get_stats() are followed
MaxStatsCalls == 2

\* variant: the utilization is computed whatever max_connections is
get_stats_NoGuard ==
    [current |-> connection_count,
     max |-> max_connections,
     peak |-> peak_connection_count,
     utilization |-> connection_count * 100]

\* get_stats(): the counters as they are under the lock; the utilization in
\* percent of max_connections, 0 for a pool without a limit
get_stats ==
    [current |-> connection_count,
     max |-> max_connections,
     peak |-> peak_connection_count,
     utilization |-> IF max_connections > 0
                     THEN (connection_count * 100) \div max_connections
                     ELSE 0]

\* a thread outside of connection() asks for the statistics
GetStats(t) ==
    /\ pc[t] = "idle"
    /\ lockOwner = NoThread
    /\ stats.calls < MaxStatsCalls
    /\ stats' = [current |-> get_stats.current, max |-> get_stats.max,
                 peak |-> get_stats.peak, utilization |-> get_stats.utilization,
                 calls |-> stats.calls + 1]
    /\ UNCHANGED <<poolVars, followVars, storeVars, chain, printed, mode, target, recorded,
                   rollbacks, verifier, parser, cachecall, traversal, destructions,
                   current_state, watcher, threads>>

PoolNext ==
    \E t \in Threads :
        \/ ConnectionClosedPool(t)
        \/ ConnectionReuse(t)
        \/ ConnectionReuseInvalid(t)
        \/ ConnectionNew(t)
        \/ CreateEnter(t)
        \/ WaitTimeout(t)
        \/ TimeoutRaise(t)
        \/ WakeUp(t)
        \/ Recheck(t)
        \/ CreateConnection(t)
        \/ ExitEphemeral(t)
        \/ ExitClosed(t)
        \/ ExitCache(t)
        \/ ExitFull(t)
        \/ Release(t)
        \/ Close(t)
        \/ CloseNotify(t)
        \/ CloseLocal(t)

(***************************************************************************)
(* Part 2: the block pipeline (parser/blocks.py, parser/check.py) over the  *)
(* ledger store, with the AssetCache of lib/ledger/caches.py that message   *)
(* interpreters consult.  blocks.py, check.py and the interpreters are      *)
(* modelled from the specification (sections 4.3, 4.4); the cache from its  *)
(* code.                                                                   *)
(***************************************************************************)

\* ---- bounds of the model ----
NumBlocks == 3
MaxTxPerBlock == 1
MaxRollbacks == 2

Sources == {"s1", "s2"}
Assets == {"A"}

Utxos == {"u1"}

\* a transaction of the source chain: an issuance of one unit of an asset
Tx == [type : {"issuance"}, source : Sources, asset : Assets, quantity : {1}]

\* an attach of one unit of an asset to a UTXO, and an order
AttachTx == [type : {"attach"}, source : {"s1"}, destination : Utxos, asset : Assets,
             quantity : {1}]
OrderTx == [type : {"order"}, source : {"s1"}, give_asset : Assets, get_asset : {"XCP"}]
Blocks == UNION {[1..n -> Tx] : n \in 0..MaxTxPerBlock}
Chains == [1..NumBlocks -> Blocks]

\* chains mixing the three kinds, one transaction a block at most
CacheTxs == {t \in Tx : t.source = "s1"} \cup AttachTx \cup OrderTx
CacheChains == [1..NumBlocks -> {<<>>} \cup {<<t>> : t \in CacheTxs}]

\* ---- AssetCache ----

NoAssetCache == [exists |-> FALSE, assets |-> << >>, assets_total_issued |-> << >>,
                 assets_total_destroyed |-> << >>]

\* a column or key that is not None: a row leaves out what is None
IsSet(row, field) == field \in DOMAIN row

ValidRows(table, name) == {i \in 1..Len(table) : table[i].asset = name /\ table[i].status = "valid"}
MaxOf(S) == CHOOSE x \in S : \A y \in S : y <= x

\* "." in asset_name
DottedNames == {"FOO.sub"}
name_field(asset_name) == IF asset_name \in DottedNames THEN "asset_longname" ELSE "asset"

\* WHERE (name_field = ? AND status = 'valid')
ValidNamed(table, name) ==
    {i \in 1..Len(table) : /\ table[i].status = "valid"
                           /\ IsSet(table[i], name_field(name))
                           /\ table[i][name_field(name)] = name}

\* ORDER BY tx_index DESC LIMIT 1
LatestOf(table, S) == CHOOSE i \in S : \A j \in S : table[j].tx_index <= table[i].tx_index

RECURSIVE SumQuantity(_, _)
SumQuantity(table, S) ==
    IF S = {} THEN 0
    ELSE LET i == CHOOSE x \in S : TRUE
         IN table[i].quantity + SumQuantity(table, S \ {i})

\* SELECT SUM(quantity) AS total, asset ... WHERE status = 'valid' GROUP BY asset
ValidTotals(table) ==
    [a \in {table[i].asset : i \in {j \in 1..Len(table) : table[j].status = "valid"}} |->
        SumQuantity(table, ValidRows(table, a))]

\* AssetCache.__init__: the latest valid issuance of each asset, under its name and
\* its longname, and the totals issued and destroyed of each asset
AssetCacheInit(table, destroyed) ==
    LET named == DOMAIN ValidTotals(table)
        latest(a) == table[MaxOf(ValidRows(table, a))]
        longnamed == {a \in named : IsSet(latest(a), "asset_longname")}
        longnames == {latest(a).asset_longname : a \in longnamed}
    IN [exists |-> TRUE,
        assets |-> [k \in named \cup longnames |->
                       IF k \in named THEN latest(k)
                       ELSE latest(CHOOSE a \in longnamed : latest(a).asset_longname = k)],
        assets_total_issued |-> ValidTotals(table),
        assets_total_destroyed |-> ValidTotals(destroyed)]

\* AssetCache(db): the singleton, built on first use
AssetCacheInstance(cache, table, destroyed) ==
    IF cache.exists THEN cache ELSE AssetCacheInit(table, destroyed)

\* get_asset: the cached row or, on a miss, the latest valid issuance of the store
\* (a set: empty for None)
AssetLookup(cache, table, name) ==
    IF name \in DOMAIN cache.assets THEN {cache.assets[name]}
    ELSE IF ValidNamed(table, name) = {} THEN {}
    ELSE {table[LatestOf(table, ValidNamed(table, name))]}

\* get_asset: a found row is cached
AssetCacheAfterLookup_CachesNothing(cache, table, name) == cache
AssetCacheAfterLookup(cache, table, name) ==
    IF name \in DOMAIN cache.assets \/ ValidNamed(table, name) = {} THEN cache
    ELSE [cache EXCEPT !.assets =
             [a \in DOMAIN cache.assets \cup {name} |->
                 IF a = name THEN table[LatestOf(table, ValidNamed(table, name))]
                 ELSE cache.assets[a]]]

\* the total of an asset after a quantity is added to it
TotalsPlus(totals, asset, quantity) ==
    [a \in DOMAIN totals \cup {asset} |->
        IF a = asset THEN (IF a \in DOMAIN totals THEN totals[a] ELSE 0) + quantity
        ELSE totals[a]]

\* add_issuance: only a valid issuance is recorded, under its name and its longname;
\* its quantity, when it has one, is added to the total issued
add_issuance_AnyStatus(cache, row) ==
    [cache EXCEPT !.assets_total_issued =
        IF IsSet(row, "quantity") THEN TotalsPlus(@, row.asset, row.quantity) ELSE @]
add_issuance(cache, row) ==
    IF row.status # "valid" THEN cache
    ELSE LET names == {row.asset} \cup (IF IsSet(row, "asset_longname")
                                        THEN {row.asset_longname} ELSE {})
         IN [cache EXCEPT
               !.assets = [a \in DOMAIN cache.assets \cup names |->
                              IF a \in names THEN row ELSE cache.assets[a]],
               !.assets_total_issued =
                  IF IsSet(row, "quantity") THEN TotalsPlus(@, row.asset, row.quantity)
                  ELSE @]

\* add_destroyed: a valid destruction with a quantity is added to the total destroyed
add_destroyed(cache, row) ==
    IF row.status = "valid" /\ IsSet(row, "quantity")
    THEN [cache EXCEPT !.assets_total_destroyed = TotalsPlus(@, row.asset, row.quantity)]
    ELSE cache

\* ---- UTXOBalancesCache ----

NoUtxoCache == [exists |-> FALSE, utxos_with_balance |-> << >>]

\* UTXOBalancesCache.__init__: every UTXO of the balances table and the destination
\* of every invalid attach (the allow-list of known sources is empty here)
UtxoCacheInit(bal, txs) ==
    LET loaded == {bal[i].utxo : i \in 1..Len(bal)}
        invalid_attach == {txs[i].destination :
                              i \in {j \in 1..Len(txs) :
                                        /\ ~txs[j].valid
                                        /\ txs[j].transaction_type = "attach"
                                        /\ txs[j].destination # ""}}
    IN [exists |-> TRUE,
        utxos_with_balance |-> [u \in loaded \cup invalid_attach |-> TRUE]]

\* UTXOBalancesCache(db): the singleton, built on first use
UtxoCacheInstance(cache, bal, txs) == IF cache.exists THEN cache ELSE UtxoCacheInit(bal, txs)

\* the store's answer to a miss: a row with a positive quantity
PositiveBalance(bal, utxo) == \E i \in 1..Len(bal) : bal[i].utxo = utxo /\ bal[i].quantity > 0

\* has_balance: the value returned
has_balance(cache, bal, utxo) ==
    IF utxo \in DOMAIN cache.utxos_with_balance THEN cache.utxos_with_balance[utxo]
    ELSE PositiveBalance(bal, utxo)

SetEntry(map, key, value) == [k \in DOMAIN map \cup {key} |-> IF k = key THEN value ELSE map[k]]

\* variant: every answer of the store is cached
UtxoCacheAfterLookup_CachesAll(cache, bal, utxo) ==
    IF utxo \in DOMAIN cache.utxos_with_balance THEN cache
    ELSE [cache EXCEPT !.utxos_with_balance = SetEntry(@, utxo, PositiveBalance(bal, utxo))]

\* has_balance: only a positive answer of the store is cached
UtxoCacheAfterLookup(cache, bal, utxo) ==
    IF utxo \in DOMAIN cache.utxos_with_balance \/ ~PositiveBalance(bal, utxo) THEN cache
    ELSE [cache EXCEPT !.utxos_with_balance = SetEntry(@, utxo, TRUE)]

add_balance(cache, utxo) == [cache EXCEPT !.utxos_with_balance = SetEntry(@, utxo, TRUE)]
remove_balance(cache, utxo) == [cache EXCEPT !.utxos_with_balance = SetEntry(@, utxo, FALSE)]

\* variant: the purge leaves the map as it is
cleanup_spent_utxos_KeepsSpent(cache) == cache

\* cleanup_spent_utxos: the False entries go
cleanup_spent_utxos(cache) ==
    [cache EXCEPT !.utxos_with_balance =
        [u \in {k \in DOMAIN @ : @[k]} |-> TRUE]]

\* cleanup_if_exists: no instance is created
cleanup_if_exists(cache) == IF cache.exists THEN cleanup_spent_utxos(cache) ELSE cache

\* ---- OrdersCache ----

MEMPOOL_BLOCK_INDEX == 9999999
CleanInterval == 50

NoOrdersCache == [exists |-> FALSE, rows |-> <<>>, last_cleaning_block_index |-> 0]

\* clean_filled_orders: at most every 50 blocks, filled orders older than 50 blocks go
clean_filled_orders_EveryCall(cache, current_block_index) ==
    [cache EXCEPT
        !.last_cleaning_block_index = current_block_index,
        !.rows = SelectSeq(@, LAMBDA r :
                    ~(r.status = "filled"
                      /\ r.block_index < current_block_index - CleanInterval))]
clean_filled_orders(cache, current_block_index) ==
    IF current_block_index - cache.last_cleaning_block_index < CleanInterval THEN cache
    ELSE [cache EXCEPT
            !.last_cleaning_block_index = current_block_index,
            !.rows = SelectSeq(@, LAMBDA r :
                        ~(r.status = "filled"
                          /\ r.block_index < current_block_index - CleanInterval))]

\* insert_order: a mempool row is skipped
insert_order(cache, order, current_block_index) ==
    IF order.block_index = MEMPOOL_BLOCK_INDEX THEN cache
    ELSE clean_filled_orders([cache EXCEPT !.rows = Append(@, order)], current_block_index)

\* UPDATE orders SET ... WHERE tx_hash = :tx_hash: the columns given, and
\* block_index, which is bound to the current block whatever was given
UpdatedRow(row, order, current_block_index) ==
    [k \in DOMAIN row |->
        IF k = "block_index" THEN current_block_index
        ELSE IF k \in DOMAIN order THEN order[k] ELSE row[k]]

RECURSIVE UpdatedRows(_, _, _, _)
UpdatedRows(rows, tx_hash, order, current_block_index) ==
    IF rows = <<>> THEN <<>>
    ELSE <<IF Head(rows).tx_hash = tx_hash
           THEN UpdatedRow(Head(rows), order, current_block_index)
           ELSE Head(rows)>>
         \o UpdatedRows(Tail(rows), tx_hash, order, current_block_index)

\* update_order: an expired order is deleted; any other update is written to the
\* row, and the sweep of filled orders follows
update_order_KeepsExpired(cache, tx_hash, order, current_block_index) ==
    clean_filled_orders(
        [cache EXCEPT !.rows = UpdatedRows(@, tx_hash, order, current_block_index)],
        current_block_index)
update_order(cache, tx_hash, order, current_block_index) ==
    IF order.status = "expired"
    THEN [cache EXCEPT !.rows = SelectSeq(@, LAMBDA r : r.tx_hash # tx_hash)]
    ELSE clean_filled_orders(
             [cache EXCEPT !.rows = UpdatedRows(@, tx_hash, order, current_block_index)],
             current_block_index)

\* the order of text values, for ORDER BY tx_hash
HashRank == [o1 |-> 1, o2 |-> 2, o3 |-> 3]

\* ORDER BY tx_index, tx_hash
ComesBefore(a, b) ==
    \/ a.tx_index < b.tx_index
    \/ a.tx_index = b.tx_index /\ HashRank[a.tx_hash] <= HashRank[b.tx_hash]

RECURSIVE OrderedRows(_)
OrderedRows(rows) ==
    IF rows = <<>> THEN <<>>
    ELSE LET i == CHOOSE x \in 1..Len(rows) :
                     \A y \in 1..Len(rows) : ComesBefore(rows[x], rows[y])
         IN <<rows[i]>> \o OrderedRows(SubSeq(rows, 1, i - 1) \o SubSeq(rows, i + 1, Len(rows)))

\* get_matching_orders: the open orders of other transactions that give what the
\* query gets and get what it gives, by tx_index and tx_hash
get_matching_orders_Unordered(cache, tx_hash, give_asset, get_asset) ==
    SelectSeq(cache.rows, LAMBDA r : /\ r.tx_hash # tx_hash
                                     /\ r.give_asset = get_asset
                                     /\ r.get_asset = give_asset
                                     /\ r.status = "open")
get_matching_orders(cache, tx_hash, give_asset, get_asset) ==
    OrderedRows(SelectSeq(cache.rows, LAMBDA r : /\ r.tx_hash # tx_hash
                                                 /\ r.give_asset = get_asset
                                                 /\ r.get_asset = give_asset
                                                 /\ r.status = "open"))

\* the latest row of each tx_hash, the expired ones left out
\* variant: the latest row of every order is loaded, whatever its status
LatestOrders_WithExpired(table) ==
    SelectSeq(table, LAMBDA r :
        \A i \in 1..Len(table) :
           table[i].tx_hash = r.tx_hash => table[i].rowid <= r.rowid)

\* SELECT * FROM (SELECT *, MAX(rowid) FROM orders GROUP BY tx_hash)
\* WHERE status != 'expired'
LatestOrders(table) ==
    SelectSeq(table, LAMBDA r :
        /\ r.status # "expired"
        /\ \A i \in 1..Len(table) :
              table[i].tx_hash = r.tx_hash => table[i].rowid <= r.rowid)

RECURSIVE InsertOrders(_, _, _, _)
InsertOrders(cache, rows, i, current_block_index) ==
    IF i > Len(rows) THEN cache
    ELSE InsertOrders(insert_order(cache, rows[i], current_block_index), rows, i + 1,
                      current_block_index)

\* OrdersCache.__init__
OrdersCacheInit(table, current_block_index) ==
    clean_filled_orders(
        InsertOrders([NoOrdersCache EXCEPT !.exists = TRUE], LatestOrders(table), 1,
                     current_block_index),
        current_block_index)

OrdersCacheInstance(cache, table, current_block_index) ==
    IF cache.exists THEN cache ELSE OrdersCacheInit(table, current_block_index)

\* ---- the three singletons ----

\* variant: the cache instances survive the reset
reset_caches_Kept(cache) == cache

\* variant: the UTXO cache is forgotten by the reset
reset_caches_NoUtxo(cache) ==
    [asset |-> NoAssetCache, orders |-> NoOrdersCache, utxo |-> cache.utxo]

\* reset_caches(): the singletons are dropped
reset_caches(cache) ==
    [asset |-> NoAssetCache, orders |-> NoOrdersCache, utxo |-> NoUtxoCache]

\* ---- the pipeline ----

\* the digest folding the previous hash with the ordered content of the block
consensus_hash(previous, content) == <<previous, content>>

FirstHash(field) == <<field>>

\* a hash not computed yet (NULL)
NoHash == <<>>

\* the block hash the source gives for a height: it commits to the whole chain below
SourceHash(c, height) == SubSeq(c, 1, height)

\* the issuance interpreter: a reissuance by another source is invalid
ParseIssuance(st, tx, block_index) ==
    LET c0 == AssetCacheInstance(st.cache, st.issuances, destructions)
        found == AssetLookup(c0, st.issuances, tx.asset)
        c1 == AssetCacheAfterLookup(c0, st.issuances, tx.asset)
        tx_index == Len(st.transactions) + 1
        reissuance == found # {}
        status == IF \E r \in found : r.source # tx.source
                  THEN "invalid: issued by another address" ELSE "valid"
        row == [tx_index |-> tx_index, block_index |-> block_index, asset |-> tx.asset,
                source |-> tx.source, quantity |-> tx.quantity, status |-> status,
                reissuance |-> reissuance]
    IN [st EXCEPT
          !.transactions = Append(@, [tx_index |-> tx_index, block_index |-> block_index,
                                      source |-> tx.source, data |-> tx,
                                      transaction_type |-> "issuance",
                                      valid |-> (status = "valid"), destination |-> ""]),
          !.issuances = Append(@, row),
          !.messages = Append(@, [message_index |-> Len(st.messages) + 1,
                                  block_index |-> block_index, event |-> row]),
          !.cache = add_issuance(c1, row)]

\* the attach interpreter: valid when the source issued the asset; the destination is
\* marked in the UTXO cache either way, the balance row is written when valid
ParseAttach(st, tx, block_index) ==
    LET c0 == AssetCacheInstance(st.cache, st.issuances, destructions)
        found == AssetLookup(c0, st.issuances, tx.asset)
        c1 == AssetCacheAfterLookup(c0, st.issuances, tx.asset)
        u0 == UtxoCacheInstance(st.utxo, st.balances, st.transactions)
        tx_index == Len(st.transactions) + 1
        valid == \E r \in found : r.source = tx.source
        row == [tx_index |-> tx_index, block_index |-> block_index, asset |-> tx.asset,
                source |-> tx.source, destination |-> tx.destination,
                quantity |-> tx.quantity,
                status |-> IF valid THEN "valid" ELSE "invalid: insufficient funds"]
    IN [st EXCEPT
          !.transactions = Append(@, [tx_index |-> tx_index, block_index |-> block_index,
                                      source |-> tx.source, data |-> tx,
                                      transaction_type |-> "attach",
                                      valid |-> valid, destination |-> tx.destination]),
          !.balances = IF valid
                       THEN Append(@, [utxo |-> tx.destination, asset |-> tx.asset,
                                       quantity |-> tx.quantity, block_index |-> block_index,
                                       tx_index |-> tx_index])
                       ELSE @,
          !.messages = Append(@, [message_index |-> Len(st.messages) + 1,
                                  block_index |-> block_index, event |-> row]),
          !.cache = c1,
          !.utxo = add_balance(u0, tx.destination)]

\* the order interpreter: an open order, mirrored in the orders cache
ParseOrder(st, tx, block_index) ==
    LET o0 == OrdersCacheInstance(st.orders_cache, st.orders, block_index)
        tx_index == Len(st.transactions) + 1
        row == [rowid |-> Len(st.orders) + 1, tx_index |-> tx_index, tx_hash |-> tx_index,
                block_index |-> block_index, source |-> tx.source,
                give_asset |-> tx.give_asset, get_asset |-> tx.get_asset,
                status |-> "open"]
    IN [st EXCEPT
          !.transactions = Append(@, [tx_index |-> tx_index, block_index |-> block_index,
                                      source |-> tx.source, data |-> tx,
                                      transaction_type |-> "order",
                                      valid |-> TRUE, destination |-> ""]),
          !.orders = Append(@, row),
          !.messages = Append(@, [message_index |-> Len(st.messages) + 1,
                                  block_index |-> block_index, event |-> row]),
          !.orders_cache = insert_order(o0, row, block_index)]

\* the interpreter registry, by message type
ParseTx(st, tx, block_index) ==
    CASE tx.type = "issuance" -> ParseIssuance(st, tx, block_index)
      [] tx.type = "attach" -> ParseAttach(st, tx, block_index)
      [] tx.type = "order" -> ParseOrder(st, tx, block_index)

\* parse the transactions of a block in index order
RECURSIVE ParseTxs(_, _, _, _)
ParseTxs(st, txs, i, block_index) ==
    IF i > Len(txs) THEN st
    ELSE ParseTxs(ParseTx(st, txs[i], block_index), txs, i + 1, block_index)

InBlock(table, block_index) == SelectSeq(table, LAMBDA r : r.block_index = block_index)

PreviousHash(field, block_index) ==
    IF block_index = 1 THEN FirstHash(field) ELSE blocks[block_index - 1][field]

\* the stored state after applying block block_index of the chain; the spent
\* entries of the UTXO cache are purged after the block
Applied(block_index) ==
    LET st == ParseTxs([transactions |-> transactions, issuances |-> issuances,
                        balances |-> balances, orders |-> orders,
                        messages |-> messages, cache |-> asset_cache,
                        utxo |-> utxo_cache, orders_cache |-> orders_cache],
                       chain[block_index], 1, block_index)
    IN [st EXCEPT !.utxo = cleanup_if_exists(@)]

BlockRow(st, block_index) ==
    [block_index |-> block_index,
     block_hash |-> SourceHash(chain, block_index),
     previous_block_hash |-> SourceHash(chain, block_index - 1),
     ledger_hash |-> consensus_hash(PreviousHash("ledger_hash", block_index),
                        SelectSeq(InBlock(st.issuances, block_index),
                                  LAMBDA r : r.status = "valid")),
     txlist_hash |-> consensus_hash(PreviousHash("txlist_hash", block_index),
                        InBlock(st.transactions, block_index)),
     messages_hash |-> consensus_hash(PreviousHash("messages_hash", block_index),
                        InBlock(st.messages, block_index))]

Tip == Len(blocks)

\* an empty store, no cache built yet
StoreInit ==
    /\ blocks = <<>>
    /\ transactions = <<>>
    /\ issuances = <<>>
    /\ balances = <<>>
    /\ orders = <<>>
    /\ messages = <<>>
    /\ asset_cache = NoAssetCache
    /\ utxo_cache = NoUtxoCache
    /\ orders_cache = NoOrdersCache
    /\ printed = "none"

\* no server process, nothing announced
FollowAtRest ==
    /\ server = "down"
    /\ observed = << >>
    /\ announced = {}
    /\ changes = 0
    /\ crashes = 0

\* no call of the consensus verifier under way
VerifierAtRest ==
    verifier = [field |-> "none", previous_consensus_hash |-> NoHash, content |-> <<>>,
                previous_row |-> NoHash, found_hash |-> NoHash,
                block_index |-> 1, checkpoints |-> <<>>,
                done |-> FALSE, error |-> "none", calculated_hash |-> NoHash]

\* no call of parse_tx made
ParserAtRest ==
    parser = [tx |-> [source |-> <<>>, destination |-> <<>>, data |-> <<>>, raises |-> FALSE],
              returned |-> "none", calls |-> 0]

\* no call made on a cache
CacheCallsAtRest ==
    cachecall = [op |-> "none", arg |-> "none", returned |-> "none", log |-> <<>>]

\* the startup traversal of the UTXO cache is not under way
TraversalAtRest ==
    traversal = [phase |-> "none", before |-> {}, pending_utxos |-> {}, processed |-> {},
                 requeried |-> {}]

\* nothing was ever destroyed
NoDestructions == destructions = <<>>

\* no block is current
CurrentStateAtRest == current_state = [current_block_index |-> 0]

\* no follower was constructed
WatcherAtRest ==
    watcher = [mempool_block |-> <<>>, mempool_block_hashes |-> <<>>,
               raw_tx_cache |-> {}, hash_by_sequence |-> {},
               last_mempool_parsing_time |-> 0, now |-> 0,
               parsed |-> <<>>, received |-> <<>>, connects |-> 0, reported |-> <<>>,
               loop |-> "none"]

\* start_all() was not called
ThreadsAtRest ==
    threads = [main |-> "none", server |-> "none", stopped |-> FALSE,
               shutdown_event |-> FALSE, interrupt |-> "none", stop_when_ready |-> FALSE,
               ended |-> "none", sequences |-> 0, stop_calls |-> 0]

\* get_stats() was not called
StatsAtRest == stats = [current |-> 0, max |-> 0, peak |-> 0, utilization |-> 0, calls |-> 0]

\* no single call under way
UnitsAtRest ==
    /\ VerifierAtRest /\ ParserAtRest /\ CacheCallsAtRest /\ TraversalAtRest
    /\ NoDestructions /\ CurrentStateAtRest /\ WatcherAtRest /\ ThreadsAtRest /\ StatsAtRest

LedgerInit ==
    /\ chain \in Chains
    /\ StoreInit
    /\ FollowAtRest
    /\ UnitsAtRest
    /\ mode = "idle"
    /\ target = 0
    /\ recorded = <<>>
    /\ rollbacks = 0

\* catch_up(): follow the source up to its tip
StartCatchUp ==
    /\ mode = "idle"
    /\ Tip < NumBlocks
    /\ mode' = "catchup"
    /\ target' = NumBlocks
    /\ UNCHANGED <<chain, storeVars, printed, recorded, rollbacks>>
    /\ UNCHANGED <<poolVars, followVars, unitVars>>

\* the writes of one block, committed together
StoreBlock(st, row) ==
    /\ transactions' = st.transactions
    /\ issuances' = st.issuances
    /\ balances' = st.balances
    /\ orders' = st.orders
    /\ messages' = st.messages
    /\ asset_cache' = st.cache
    /\ utxo_cache' = st.utxo
    /\ orders_cache' = st.orders_cache
    /\ blocks' = Append(blocks, row)

\* one block of catch_up(): parse its transactions, chain the hashes, store the row
ParseBlock ==
    /\ mode = "catchup"
    /\ Tip < target
    /\ LET st == Applied(Tip + 1)
           row == BlockRow(st, Tip + 1)
       IN /\ StoreBlock(st, row)
          /\ recorded' = IF Tip + 1 > Len(recorded) THEN Append(recorded, row) ELSE recorded
    /\ UNCHANGED <<chain, printed, mode, target, rollbacks>>
    /\ UNCHANGED <<poolVars, followVars, unitVars>>

\* catch_up() has reached the tip it was after
CatchUpDone ==
    /\ mode = "catchup"
    /\ Tip >= target
    /\ mode' = "idle"
    /\ UNCHANGED <<chain, storeVars, printed, target, recorded, rollbacks>>
    /\ UNCHANGED <<poolVars, followVars, unitVars>>

\* variant: the block at the index itself is kept
Before_Inclusive(table, block_index) == SelectSeq(table, LAMBDA r : r.block_index <= block_index)

\* the rows of a table below a block index
Before(table, block_index) == SelectSeq(table, LAMBDA r : r.block_index < block_index)

\* the rows rollback(block_index) leaves, and the cache reset that follows
RollbackTo(block_index) ==
    /\ blocks' = Before(blocks, block_index)
    /\ transactions' = Before(transactions, block_index)
    /\ issuances' = Before(issuances, block_index)
    /\ balances' = Before(balances, block_index)
    /\ orders' = Before(orders, block_index)
    /\ messages' = Before(messages, block_index)
    /\ LET caches == reset_caches([asset |-> asset_cache, orders |-> orders_cache,
                                   utxo |-> utxo_cache])
       IN /\ asset_cache' = caches.asset
          /\ orders_cache' = caches.orders
          /\ utxo_cache' = caches.utxo

\* variant: an index beyond the tip is taken as the tip
Rollback_Clamped(block_index) ==
    /\ mode = "idle"
    /\ rollbacks < MaxRollbacks
    /\ rollbacks' = rollbacks + 1
    /\ RollbackTo(IF block_index > Tip THEN Tip ELSE block_index)
    /\ printed' = "none"
    /\ UNCHANGED <<chain, mode, target, recorded>>
    /\ UNCHANGED <<poolVars, followVars, unitVars>>

\* rollback(block_index): nothing to do beyond the tip
Rollback(block_index) ==
    /\ mode = "idle"
    /\ rollbacks < MaxRollbacks
    /\ rollbacks' = rollbacks + 1
    /\ IF block_index > Tip
       THEN /\ printed' = "No need to rollback"
            /\ UNCHANGED storeVars
       ELSE /\ RollbackTo(block_index)
            /\ printed' = "none"
    /\ UNCHANGED <<chain, mode, target, recorded>>
    /\ UNCHANGED <<poolVars, followVars, unitVars>>

\* reparse(block_index): rollback, then catch up to the previous tip
Reparse(block_index) ==
    /\ mode = "idle"
    /\ rollbacks < MaxRollbacks
    /\ rollbacks' = rollbacks + 1
    /\ IF block_index > Tip
       THEN /\ printed' = "No need to reparse"
            /\ UNCHANGED <<storeVars, mode, target>>
       ELSE /\ RollbackTo(block_index)
            /\ printed' = "none"
            /\ mode' = "catchup"
            /\ target' = Tip
    /\ UNCHANGED <<chain, recorded>>
    /\ UNCHANGED <<poolVars, followVars, unitVars>>

LedgerNext ==
    \/ StartCatchUp
    \/ ParseBlock
    \/ CatchUpDone
    \/ \E block_index \in 1..(NumBlocks + 1) : Rollback(block_index)
    \/ \E block_index \in 1..(NumBlocks + 1) : Reparse(block_index)

(***************************************************************************)
(* Part 3: the server process (cli/server.py: run_server) and the chain     *)
(* follower over a source whose chain may be reorganised.  The follower     *)
(* (parser/follow.py), handle_reorg and rollback_empty_block                *)
(* (parser/blocks.py) are modelled from the specification (sections 4.3,   *)
(* 4.5) and their unit tests.                                               *)
(***************************************************************************)

\* ---- bounds of the model ----
MaxHeight == 4
MaxSourceChanges == 1
MaxCrashes == 1

\* the chains the source may report: blocks are empty or hold one issuance
FollowBlocks == {<<>>} \cup {<<t>> : t \in {x \in Tx : x.source = "s1"}}
SourceChains == UNION {[1..n -> FollowBlocks] : n \in 1..MaxHeight}

\* the hash of the local block at a height (0: the block before the first)
LocalHash(height) == IF height = 0 THEN SourceHash(chain, 0) ELSE blocks[height].block_hash
TipHash == LocalHash(Tip)

\* ledger.blocks.get_block_by_hash: the heights of the rows found (empty: None)
get_block_by_hash(hash) == {i \in 1..Tip : blocks[i].block_hash = hash}

\* the API servers are up
Serving == server \in {"api", "ready", "catching", "following"}

\* the source reorganises or extends its chain
SourceChange ==
    /\ changes < MaxSourceChanges
    /\ changes' = changes + 1
    /\ chain' \in SourceChains \ {chain}
    /\ UNCHANGED <<storeVars, printed, mode, target, recorded, rollbacks,
                   server, observed, announced, crashes>>
    /\ UNCHANGED <<poolVars, unitVars>>

\* run_server(): the database is initialised and the API servers are started
StartApi ==
    /\ server = "down"
    /\ server' = "api"
    /\ UNCHANGED <<chain, storeVars, printed, mode, target, recorded, rollbacks,
                   observed, announced, changes, crashes>>
    /\ UNCHANGED <<poolVars, unitVars>>

\* rollback_empty_block(): a last block without ledger_hash is rolled back
rollback_empty_block ==
    IF Tip > 0 /\ blocks[Tip].ledger_hash = NoHash
    THEN /\ RollbackTo(Tip)
         /\ printed' = "Ledger hashes are empty"
    ELSE UNCHANGED <<storeVars, printed>>

\* variant: run_server() goes on without the guard
RollbackEmptyBlockStep_Skipped ==
    /\ server = "api"
    /\ server' = "ready"
    /\ UNCHANGED <<storeVars, printed>>
    /\ UNCHANGED <<chain, mode, target, recorded, rollbacks, observed, announced,
                   changes, crashes>>
    /\ UNCHANGED <<poolVars, unitVars>>

\* run_server(): blocks.rollback_empty_block(self.db), after the API servers
RollbackEmptyBlockStep ==
    /\ server = "api"
    /\ server' = "ready"
    /\ rollback_empty_block
    /\ UNCHANGED <<chain, mode, target, recorded, rollbacks, observed, announced,
                   changes, crashes>>
    /\ UNCHANGED <<poolVars, unitVars>>

\* run_server(): blocks.catch_up(self.db)
ServerCatchUp ==
    /\ server = "ready"
    /\ mode = "idle"
    /\ server' = "catching"
    /\ mode' = "catchup"
    /\ UNCHANGED <<chain, storeVars, printed, target, recorded, rollbacks,
                   observed, announced, changes, crashes>>
    /\ UNCHANGED <<poolVars, unitVars>>

\* the next block of the source goes onto the local tip
ExtendsTip == Tip < Len(chain) /\ SourceHash(chain, Tip) = TipHash

\* catch_up(): the next block is fetched and applied
CatchUpBlock ==
    /\ mode = "catchup"
    /\ ExtendsTip
    /\ LET st == Applied(Tip + 1)
       IN StoreBlock(st, BlockRow(st, Tip + 1))
    /\ UNCHANGED <<chain, printed, mode, target, recorded, rollbacks, followVars>>
    /\ UNCHANGED <<poolVars, unitVars>>

\* catch_up(): the parent of the next block is not the local tip
CatchUpReorg ==
    /\ mode = "catchup"
    /\ Tip < Len(chain)
    /\ ~ExtendsTip
    /\ mode' = "reorg"
    /\ UNCHANGED <<chain, storeVars, printed, target, recorded, rollbacks, followVars>>
    /\ UNCHANGED <<poolVars, unitVars>>

\* catch_up(): no next block; run_server() then starts the follower
CatchUpEnd ==
    /\ mode = "catchup"
    /\ Tip >= Len(chain)
    /\ mode' = "idle"
    /\ server' = "following"
    /\ UNCHANGED <<chain, storeVars, printed, target, recorded, rollbacks,
                   observed, announced, changes, crashes>>
    /\ UNCHANGED <<poolVars, unitVars>>

\* handle_reorg(): walk down from the block below the tip to the first height whose
\* successor the source has and whose hash the source shares
RECURSIVE WalkBack(_)
WalkBack(previous_block_index) ==
    IF previous_block_index = 0 THEN 0
    ELSE IF previous_block_index + 1 > Len(chain)
         THEN WalkBack(previous_block_index - 1)
    ELSE IF SourceHash(chain, previous_block_index) # LocalHash(previous_block_index)
         THEN WalkBack(previous_block_index - 1)
    ELSE previous_block_index

\* variant: only the tip is given up
HandleReorg_TipOnly ==
    /\ mode = "reorg"
    /\ Tip >= 1
    /\ RollbackTo(Tip)
    /\ printed' = "Ledger DB rolled back"
    /\ mode' = "catchup"
    /\ announced' = {}
    /\ UNCHANGED <<chain, target, recorded, rollbacks, server, observed, changes, crashes>>
    /\ UNCHANGED <<poolVars, unitVars>>

\* handle_reorg(): roll back to the block above the matched one, resume catch-up
HandleReorg ==
    /\ mode = "reorg"
    /\ Tip >= 1
    /\ RollbackTo(WalkBack(Tip - 1) + 1)
    /\ printed' = "Ledger DB rolled back"
    /\ mode' = "catchup"
    /\ announced' = {}
    /\ UNCHANGED <<chain, target, recorded, rollbacks, server, observed, changes, crashes>>
    /\ UNCHANGED <<poolVars, unitVars>>

\* the parent the announced block declares is not the local block below it
DivergingParent(height) ==
    /\ height - 1 \in 1..Tip
    /\ LocalHash(height - 1) # SourceHash(chain, height - 1)

\* variant: a block for the height above the tip is applied without a look at
\* its parent
ReceiveBlock_Unchecked(height) ==
    /\ server = "following"
    /\ mode = "idle"
    /\ height \in 1..Len(chain)
    /\ IF get_block_by_hash(SourceHash(chain, height)) # {}
       THEN UNCHANGED <<storeVars, mode, announced>>
       ELSE /\ announced' = IF DivergingParent(height)
                            THEN announced \cup {SourceHash(chain, height)}
                            ELSE announced
            /\ IF height # Tip + 1
               THEN mode' = "catchup" /\ UNCHANGED storeVars
               ELSE /\ LET st == Applied(height)
                       IN StoreBlock(st, BlockRow(st, height))
                    /\ UNCHANGED mode
    /\ UNCHANGED <<chain, printed, target, recorded, rollbacks, server, observed,
                   changes, crashes>>
    /\ UNCHANGED <<poolVars, unitVars>>

\* receive_rawblock(): a block already stored is skipped, a block whose parent is
\* not stored starts catch_up(), any other goes to parse_new_block(), which
\* repairs a reorganisation when the parent is not the local tip
ReceiveBlock(height) ==
    /\ server = "following"
    /\ mode = "idle"
    /\ height \in 1..Len(chain)
    /\ IF get_block_by_hash(SourceHash(chain, height)) # {}
       THEN UNCHANGED <<storeVars, mode, announced>>
       ELSE /\ announced' = IF DivergingParent(height)
                            THEN announced \cup {SourceHash(chain, height)}
                            ELSE announced
            /\ IF get_block_by_hash(SourceHash(chain, height - 1)) = {}
               THEN mode' = "catchup" /\ UNCHANGED storeVars
               ELSE IF SourceHash(chain, height - 1) # TipHash
                    THEN mode' = "reorg" /\ UNCHANGED storeVars
                    ELSE /\ LET st == Applied(height)
                            IN StoreBlock(st, BlockRow(st, height))
                         /\ UNCHANGED mode
    /\ UNCHANGED <<chain, printed, target, recorded, rollbacks, server, observed,
                   changes, crashes>>
    /\ UNCHANGED <<poolVars, unitVars>>

\* the rows a crash in the middle of a block leaves: the block row without its
\* hashes and the transactions parsed so far
PartialBlock(parsed) ==
    LET st == ParseTxs([transactions |-> transactions, issuances |-> issuances,
                        balances |-> balances, orders |-> orders,
                        messages |-> messages, cache |-> asset_cache,
                        utxo |-> utxo_cache, orders_cache |-> orders_cache],
                       SubSeq(chain[Tip + 1], 1, parsed), 1, Tip + 1)
    IN [st EXCEPT !.cache = NoAssetCache, !.utxo = NoUtxoCache,
                  !.orders_cache = NoOrdersCache]

\* the process dies while a block is being applied
CrashMidBlock ==
    /\ mode = "catchup"
    /\ ExtendsTip
    /\ crashes < MaxCrashes
    /\ crashes' = crashes + 1
    /\ \E parsed \in 0..Len(chain[Tip + 1]) :
          LET st == PartialBlock(parsed)
          IN StoreBlock(st, [BlockRow(st, Tip + 1) EXCEPT !.ledger_hash = NoHash,
                                                          !.txlist_hash = NoHash,
                                                          !.messages_hash = NoHash])
    /\ server' = "down"
    /\ mode' = "idle"
    /\ observed' = <<>>
    /\ UNCHANGED <<chain, printed, target, recorded, rollbacks, announced, changes>>
    /\ UNCHANGED <<poolVars, unitVars>>

\* a reader of the API gets the last block over a pooled connection
Read ==
    /\ Serving
    /\ observed' = IF Tip = 0 THEN <<>> ELSE <<blocks[Tip]>>
    /\ UNCHANGED <<chain, storeVars, printed, mode, target, recorded, rollbacks,
                   server, announced, changes, crashes>>
    /\ UNCHANGED <<poolVars, unitVars>>

FollowNext ==
    \/ SourceChange
    \/ StartApi
    \/ RollbackEmptyBlockStep
    \/ ServerCatchUp
    \/ CatchUpBlock
    \/ CatchUpReorg
    \/ CatchUpEnd
    \/ HandleReorg
    \/ \E height \in 1..MaxHeight : ReceiveBlock(height)
    \/ CrashMidBlock

\* the server over a source at rest, with readers of the API
ServerNext ==
    \/ StartApi
    \/ RollbackEmptyBlockStep
    \/ ServerCatchUp
    \/ CatchUpBlock
    \/ CatchUpEnd
    \/ CrashMidBlock
    \/ Read

(***************************************************************************)
(* Part 4: the consensus verifier (parser/check.py: consensus_hash), one    *)
(* call at a time over arguments and stored rows drawn at the start.        *)
(* check.py is modelled from the specification (section 4.4) and from      *)
(* check_test.py.                                                           *)
(***************************************************************************)

\* ---- bounds of the model ----
MaxChunks == 1

Fields == {"ledger_hash", "txlist_hash", "messages_hash"}
Chunks == {"a", "b"}
Contents == UNION {[1..n -> Chunks] : n \in 0..MaxChunks}
PreviousHashes == {<<"h1">>, <<"h2">>}

\* the hashes a block row may hold for a field: none, or the hash of some content
StoredHashes == {NoHash} \cup {consensus_hash(p, c) : p \in PreviousHashes, c \in Contents}

\* the previous hash the call works with: the argument, else the previous row's
ResolvedPrevious(call) ==
    IF call.previous_consensus_hash # NoHash
    THEN call.previous_consensus_hash
    ELSE call.previous_row

\* the block indexes a checkpoint table may hold, and the hashes it may give
CheckpointBlocks == {1, 2}
CheckpointHashes == {consensus_hash(p, <<>>) : p \in PreviousHashes}
CheckpointTables == UNION {[S -> CheckpointHashes] : S \in SUBSET CheckpointBlocks}

\* variant: the checkpoint table is not looked at
CheckpointMismatch_Ignored(call, calculated_hash) == FALSE

\* the current block is a checkpoint and the calculated hash is not its hash
CheckpointMismatch(call, calculated_hash) ==
    /\ call.block_index \in DOMAIN call.checkpoints
    /\ call.checkpoints[call.block_index] # calculated_hash

\* variant: a stored hash is returned and never compared
consensusHash_Unverified(call) ==
    LET previous == ResolvedPrevious(call)
        calculated_hash == consensus_hash(previous, call.content)
    IN IF previous = NoHash
       THEN [call EXCEPT !.done = TRUE, !.error = "Empty previous hash"]
       ELSE IF CheckpointMismatch(call, calculated_hash)
            THEN [call EXCEPT !.done = TRUE, !.error = "Incorrect checkpoint hash"]
            ELSE [call EXCEPT !.done = TRUE, !.calculated_hash = calculated_hash]

\* consensus_hash(db, field, previous_consensus_hash, content): returns
\* (calculated_hash, found_hash) or raises ConsensusError
consensusHash(call) ==
    LET previous == ResolvedPrevious(call)
        calculated_hash == consensus_hash(previous, call.content)
    IN IF previous = NoHash
       THEN [call EXCEPT !.done = TRUE, !.error = "Empty previous hash"]
       ELSE IF call.found_hash # NoHash /\ call.found_hash # calculated_hash
            THEN [call EXCEPT !.done = TRUE, !.error = "Inconsistent hash"]
       ELSE IF CheckpointMismatch(call, calculated_hash)
            THEN [call EXCEPT !.done = TRUE, !.error = "Incorrect checkpoint hash"]
            ELSE [call EXCEPT !.done = TRUE, !.calculated_hash = calculated_hash]

\* the call is made
ConsensusHashCall ==
    /\ ~verifier.done
    /\ verifier' = consensusHash(verifier)
    /\ UNCHANGED <<chain, storeVars, printed, mode, target, recorded, rollbacks, followVars>>
    /\ UNCHANGED <<poolVars, procVars, parser, cachecall, traversal, destructions, current_state>>

(***************************************************************************)
(* Part 5: the transaction envelope (parser/blocks.py: parse_tx,            *)
(* parse_block).  The message interpreters are outside: one is a registered *)
(* type id, an event it emits, and whether it raises.  blocks.py is         *)
(* modelled from the specification (section 4.3) and from blocks_test.py.   *)
(***************************************************************************)

\* ---- bounds of the model ----
MaxParseCalls == 2

\* addresses are sequences of characters, payloads sequences of bytes
SEPARATOR == "-"
RawSources == {<<>>, <<"a">>, <<"a", "-", "1">>}
RawDestinations == {<<>>, <<"b">>, <<"b", "-", "2">>}
Payloads == {<<>>, <<0>>, <<0, 0, 0, 20>>, <<0, 0, 0, 99>>}
InterpreterIds == {20}
RawTx == [source : RawSources, destination : RawDestinations, data : Payloads,
          raises : BOOLEAN]

Contains(s, ch) == \E i \in 1..Len(s) : s[i] = ch

\* message_type.unpack: the big-endian value of the first four bytes, nothing when
\* the payload is shorter
unpack(data) ==
    IF Len(data) < 4 THEN {}
    ELSE {((data[1] * 256 + data[2]) * 256 + data[3]) * 256 + data[4]}

\* an interpreter at work: one event in the journal
Interpret(st, tx, block_index) ==
    [st EXCEPT !.messages =
        Append(@, [message_index |-> Len(@) + 1, block_index |-> block_index,
                   event |-> [message_type_id |-> CHOOSE id \in unpack(tx.data) : TRUE,
                              source |-> tx.source, destination |-> tx.destination]])]

\* variant: a transaction without interpreter leaves an event behind
parse_tx_Journalled(st, tx, block_index) ==
    IF Contains(tx.source, SEPARATOR) \/ Contains(tx.destination, SEPARATOR)
    THEN [st |-> st, returned |-> "False"]
    ELSE IF tx.source = <<>>
    THEN [st |-> st, returned |-> "False"]
    ELSE IF unpack(tx.data) = {}
    THEN [st |-> st, returned |-> "False"]
    ELSE IF unpack(tx.data) \cap InterpreterIds = {}
    THEN [st |-> Interpret(st, tx, block_index), returned |-> "False"]
    ELSE IF tx.raises
    THEN [st |-> st, returned |-> "ParseTransactionError"]
    ELSE [st |-> Interpret(st, tx, block_index), returned |-> "True"]

\* parse_tx(db, tx): False for a transaction it does not support, True after the
\* interpreter has run, ParseTransactionError when the interpreter raised
parse_tx(st, tx, block_index) ==
    IF Contains(tx.source, SEPARATOR) \/ Contains(tx.destination, SEPARATOR)
    THEN [st |-> st, returned |-> "False"]
    ELSE IF tx.source = <<>>
    THEN [st |-> st, returned |-> "False"]
    ELSE IF unpack(tx.data) = {}
    THEN [st |-> st, returned |-> "False"]
    ELSE IF unpack(tx.data) \cap InterpreterIds = {}
    THEN [st |-> st, returned |-> "False"]
    ELSE IF tx.raises
    THEN [st |-> st, returned |-> "ParseTransactionError"]
    ELSE [st |-> Interpret(st, tx, block_index), returned |-> "True"]

\* the store as the parser sees it
StoreNow ==
    [transactions |-> transactions, issuances |-> issuances, balances |-> balances,
     orders |-> orders, messages |-> messages, cache |-> asset_cache,
     utxo |-> utxo_cache, orders_cache |-> orders_cache]

\* the store takes the parser's writes
StoreBecomes(st) ==
    /\ transactions' = st.transactions
    /\ issuances' = st.issuances
    /\ balances' = st.balances
    /\ orders' = st.orders
    /\ messages' = st.messages
    /\ asset_cache' = st.cache
    /\ utxo_cache' = st.utxo
    /\ orders_cache' = st.orders_cache
    /\ UNCHANGED blocks

\* one call of parse_tx
ParseTxCall(tx) ==
    /\ parser.calls < MaxParseCalls
    /\ LET r == parse_tx(StoreNow, tx, 1)
       IN /\ StoreBecomes(r.st)
          /\ parser' = [tx |-> tx, returned |-> r.returned, calls |-> parser.calls + 1]
    /\ UNCHANGED <<chain, printed, mode, target, recorded, rollbacks, followVars>>
    /\ UNCHANGED <<poolVars, procVars, verifier, cachecall, traversal, destructions, current_state>>

\* the transactions catch-up meets, one of each outcome: parsed, unsupported,
\* interpreter raising
OutcomeTxs ==
    {tx \in RawTx : /\ tx.source = <<"a">>
                    /\ tx.destination = <<>>
                    /\ Len(tx.data) = 4
                    /\ tx.raises => unpack(tx.data) \subseteq InterpreterIds}
RawBlocks == UNION {[1..n -> OutcomeTxs] : n \in 0..MaxTxPerBlock}
RawChains == [1..NumBlocks -> RawBlocks]

\* list_tx for each transaction of the block: the rows of table transactions
list_txs(st, txs, block_index) ==
    LET n == Len(st.transactions)
    IN [st EXCEPT !.transactions =
          @ \o [i \in 1..Len(txs) |->
                  [tx_index |-> n + i, block_index |-> block_index,
                   source |-> txs[i].source, destination |-> txs[i].destination,
                   data |-> txs[i].data]]]

\* parse_block(): parse_tx for each transaction in index order; an error of
\* parse_tx goes up to the caller
RECURSIVE parse_block(_, _, _, _)
parse_block(st, txs, i, block_index) ==
    IF i > Len(txs) THEN [st |-> st, raised |-> "none"]
    ELSE LET r == parse_tx(st, txs[i], block_index)
         IN IF r.returned = "ParseTransactionError"
            THEN [st |-> r.st, raised |-> "ParseTransactionError"]
            ELSE parse_block(r.st, txs, i + 1, block_index)

\* variant: catch-up goes on after the error, the block is stored
ParseRawBlock_Swallowed ==
    /\ mode = "catchup"
    /\ Tip < target
    /\ LET r == parse_block(list_txs(StoreNow, chain[Tip + 1], Tip + 1),
                            chain[Tip + 1], 1, Tip + 1)
       IN StoreBlock(r.st, BlockRow(r.st, Tip + 1))
    /\ UNCHANGED <<chain, printed, mode, target, recorded, rollbacks>>
    /\ UNCHANGED <<poolVars, followVars, unitVars>>

\* one block of catch_up(): its transactions are listed and parsed, then the
\* hashes are chained and the row stored; a ParseTransactionError ends catch_up()
ParseRawBlock ==
    /\ mode = "catchup"
    /\ Tip < target
    /\ LET r == parse_block(list_txs(StoreNow, chain[Tip + 1], Tip + 1),
                            chain[Tip + 1], 1, Tip + 1)
       IN IF r.raised = "none"
          THEN /\ StoreBlock(r.st, BlockRow(r.st, Tip + 1))
               /\ UNCHANGED <<printed, mode>>
          ELSE /\ mode' = "halted"
               /\ printed' = r.raised
               /\ UNCHANGED storeVars
    /\ UNCHANGED <<chain, target, recorded, rollbacks>>
    /\ UNCHANGED <<poolVars, followVars, unitVars>>

ParseNext ==
    \/ StartCatchUp
    \/ ParseRawBlock
    \/ CatchUpDone

(***************************************************************************)
(* Part 6: the caches called on their own (ledger/caches.py), over a store  *)
(* that stays as it is.  cachecall keeps the last call, the value it        *)
(* returned and the calls just before it.                                   *)
(***************************************************************************)

\* ---- bounds of the model ----
MaxLog == 3

\* the log of calls with one more, the oldest dropped beyond MaxLog
Logged(log, entry) ==
    LET l == Append(log, entry)
    IN IF Len(l) > MaxLog THEN Tail(l) ELSE l

Called(op, arg, returned) ==
    cachecall' = [op |-> op, arg |-> arg, returned |-> returned,
                  log |-> Logged(cachecall.log, <<op, arg>>)]

\* ---- UTXOBalancesCache ----

\* the UTXOs asked about, and what table balances holds for each
UtxoList == <<"u1", "u2">>
CacheUtxos == Range(UtxoList)
Holdings == [CacheUtxos -> {"none", "zero", "positive"}]

RECURSIVE BalanceRows(_, _)
BalanceRows(holding, i) ==
    IF i > Len(UtxoList) THEN <<>>
    ELSE (IF holding[UtxoList[i]] = "none" THEN <<>>
          ELSE <<[utxo |-> UtxoList[i], asset |-> "A",
                  quantity |-> IF holding[UtxoList[i]] = "positive" THEN 1 ELSE 0,
                  block_index |-> 1, tx_index |-> i]>>)
         \o BalanceRows(holding, i + 1)

UtxoAddBalance(utxo) ==
    /\ utxo_cache' = add_balance(utxo_cache, utxo)
    /\ Called("add_balance", utxo, "none")
    /\ UNCHANGED <<chain, blocks, transactions, issuances, balances, orders, messages,
                   asset_cache, orders_cache, printed, mode, target, recorded, rollbacks>>
    /\ UNCHANGED <<poolVars, followVars, procVars, verifier, parser, traversal, destructions, current_state>>

UtxoRemoveBalance(utxo) ==
    /\ utxo_cache' = remove_balance(utxo_cache, utxo)
    /\ Called("remove_balance", utxo, "none")
    /\ UNCHANGED <<chain, blocks, transactions, issuances, balances, orders, messages,
                   asset_cache, orders_cache, printed, mode, target, recorded, rollbacks>>
    /\ UNCHANGED <<poolVars, followVars, procVars, verifier, parser, traversal, destructions, current_state>>

UtxoHasBalance(utxo) ==
    /\ utxo_cache' = UtxoCacheAfterLookup(utxo_cache, balances, utxo)
    /\ Called("has_balance", utxo, has_balance(utxo_cache, balances, utxo))
    /\ UNCHANGED <<chain, blocks, transactions, issuances, balances, orders, messages,
                   asset_cache, orders_cache, printed, mode, target, recorded, rollbacks>>
    /\ UNCHANGED <<poolVars, followVars, procVars, verifier, parser, traversal, destructions, current_state>>

UtxoCleanup ==
    /\ utxo_cache' = cleanup_spent_utxos(utxo_cache)
    /\ Called("cleanup_spent_utxos", "none", "none")
    /\ UNCHANGED <<chain, blocks, transactions, issuances, balances, orders, messages,
                   asset_cache, orders_cache, printed, mode, target, recorded, rollbacks>>
    /\ UNCHANGED <<poolVars, followVars, procVars, verifier, parser, traversal, destructions, current_state>>

UtxoNext ==
    \/ \E utxo \in CacheUtxos : UtxoAddBalance(utxo)
    \/ \E utxo \in CacheUtxos : UtxoRemoveBalance(utxo)
    \/ \E utxo \in CacheUtxos : UtxoHasBalance(utxo)
    \/ UtxoCleanup

\* ---- AssetCache called on its own ----

MaxAssetCalls == 3

Statuses == {"valid", "invalid"}

\* rows of table issuances: of asset FOO, of the subasset A1 named FOO.sub, and of
\* A1 with no longname recorded
FooRow(tx_index, status, quantity) ==
    [tx_index |-> tx_index, asset |-> "FOO", quantity |-> quantity, status |-> status]
SubRow(tx_index, status, quantity) ==
    [tx_index |-> tx_index, asset |-> "A1", asset_longname |-> "FOO.sub",
     quantity |-> quantity, status |-> status]
BareRow(tx_index, status, quantity) ==
    [tx_index |-> tx_index, asset |-> "A1", quantity |-> quantity, status |-> status]

\* the contents of table issuances the asset cache is built over, in tx_index order
IssuanceStores ==
    {<<>>,
     <<FooRow(1, "valid", 1)>>,
     <<FooRow(1, "valid", 1), FooRow(2, "invalid", 1)>>,
     <<SubRow(1, "valid", 1)>>,
     <<SubRow(1, "invalid", 1)>>,
     <<SubRow(1, "valid", 1), BareRow(2, "valid", 1)>>,
     <<SubRow(1, "valid", 1), SubRow(2, "valid", 2), BareRow(3, "valid", 1)>>}

\* the contents of table destructions
DestructionStores == {<<>>, <<FooRow(1, "valid", 1)>>}

\* the issuances and destructions passed to the cache; one without a quantity
\* leaves the key out
IssuanceArgs ==
    {[asset |-> "FOO", status |-> st, quantity |-> 2] : st \in Statuses}
    \cup {[asset |-> "FOO", status |-> st] : st \in Statuses}
    \cup {[asset |-> "A1", asset_longname |-> "FOO.sub", status |-> st, quantity |-> 1] :
             st \in Statuses}
DestroyedArgs ==
    {[asset |-> "FOO", status |-> st, quantity |-> 2] : st \in Statuses}
    \cup {[asset |-> "FOO", status |-> st] : st \in Statuses}
AssetNames == {"FOO", "A1", "FOO.sub"}

AssetAddIssuance(issuance) ==
    /\ Len(cachecall.log) < MaxAssetCalls
    /\ asset_cache' = add_issuance(asset_cache, issuance)
    /\ Called("add_issuance", issuance, "none")
    /\ UNCHANGED <<chain, blocks, transactions, issuances, balances, orders, messages,
                   utxo_cache, orders_cache, printed, mode, target, recorded, rollbacks>>
    /\ UNCHANGED <<poolVars, followVars, procVars, verifier, parser, traversal, destructions, current_state>>

AssetAddDestroyed(destroyed) ==
    /\ Len(cachecall.log) < MaxAssetCalls
    /\ asset_cache' = add_destroyed(asset_cache, destroyed)
    /\ Called("add_destroyed", destroyed, "none")
    /\ UNCHANGED <<chain, blocks, transactions, issuances, balances, orders, messages,
                   utxo_cache, orders_cache, printed, mode, target, recorded, rollbacks>>
    /\ UNCHANGED <<poolVars, followVars, procVars, verifier, parser, traversal, destructions, current_state>>

AssetGet(asset_name) ==
    /\ Len(cachecall.log) < MaxAssetCalls
    /\ asset_cache' = AssetCacheAfterLookup(asset_cache, issuances, asset_name)
    /\ Called("get_asset", asset_name, AssetLookup(asset_cache, issuances, asset_name))
    /\ UNCHANGED <<chain, blocks, transactions, issuances, balances, orders, messages,
                   utxo_cache, orders_cache, printed, mode, target, recorded, rollbacks>>
    /\ UNCHANGED <<poolVars, followVars, procVars, verifier, parser, traversal, destructions, current_state>>

AssetNext ==
    \/ \E issuance \in IssuanceArgs : AssetAddIssuance(issuance)
    \/ \E destroyed \in DestroyedArgs : AssetAddDestroyed(destroyed)
    \/ \E asset_name \in AssetNames : AssetGet(asset_name)

\* ---- OrdersCache called on its own ----

MaxOrderCalls == 3

\* the blocks the calls are made in: the sweep is due or not, by exactly the
\* interval or by more
BlockHeights == {10, 60, 70, 120}

OrderHashes == {"o1", "o2"}

\* the orders inserted: open or filled, of the current block or of the mempool
InsertArgs ==
    {[tx_hash |-> h, block_index |-> b, status |-> st, give_remaining |-> 1] :
        h \in OrderHashes, b \in BlockHeights \cup {MEMPOOL_BLOCK_INDEX},
        st \in {"open", "filled"}}

\* the updates of an order: the columns that change
UpdateArgs ==
    {[status |-> "open", give_remaining |-> 0],
     [status |-> "filled", give_remaining |-> 0],
     [status |-> "filled"],
     [status |-> "expired"]}

InCache(tx_hash) == \E i \in 1..Len(orders_cache.rows) : orders_cache.rows[i].tx_hash = tx_hash

\* a new block becomes the current one
OrdersNewBlock(block_index) ==
    /\ block_index > current_state.current_block_index
    /\ current_state' = [current_state EXCEPT !.current_block_index = block_index]
    /\ UNCHANGED <<chain, blocks, transactions, issuances, balances, orders, messages,
                   asset_cache, utxo_cache, orders_cache, printed,
                   mode, target, recorded, rollbacks>>
    /\ UNCHANGED <<poolVars, followVars, procVars, verifier, parser, cachecall, traversal, destructions>>

OrdersInsert(order) ==
    /\ Len(cachecall.log) < MaxOrderCalls
    /\ order.block_index \in {current_state.current_block_index, MEMPOOL_BLOCK_INDEX}
    /\ ~InCache(order.tx_hash)
    /\ orders_cache' = insert_order(orders_cache, order, current_state.current_block_index)
    /\ Called("insert_order",
              [tx_hash |-> order.tx_hash, order |-> order,
               current_block_index |-> current_state.current_block_index], "none")
    /\ UNCHANGED <<chain, blocks, transactions, issuances, balances, orders, messages,
                   asset_cache, utxo_cache, printed, mode, target, recorded, rollbacks>>
    /\ UNCHANGED <<poolVars, followVars, procVars, verifier, parser, traversal, destructions, current_state>>

OrdersUpdate(tx_hash, order) ==
    /\ Len(cachecall.log) < MaxOrderCalls
    /\ orders_cache' = update_order(orders_cache, tx_hash, order,
                                    current_state.current_block_index)
    /\ Called("update_order",
              [tx_hash |-> tx_hash, order |-> order,
               current_block_index |-> current_state.current_block_index], "none")
    /\ UNCHANGED <<chain, blocks, transactions, issuances, balances, orders, messages,
                   asset_cache, utxo_cache, printed, mode, target, recorded, rollbacks>>
    /\ UNCHANGED <<poolVars, followVars, procVars, verifier, parser, traversal, destructions, current_state>>

OrdersClean ==
    /\ Len(cachecall.log) < MaxOrderCalls
    /\ orders_cache' = clean_filled_orders(orders_cache, current_state.current_block_index)
    /\ Called("clean_filled_orders",
              [tx_hash |-> "none", order |-> << >>,
               current_block_index |-> current_state.current_block_index], "none")
    /\ UNCHANGED <<chain, blocks, transactions, issuances, balances, orders, messages,
                   asset_cache, utxo_cache, printed, mode, target, recorded, rollbacks>>
    /\ UNCHANGED <<poolVars, followVars, procVars, verifier, parser, traversal, destructions, current_state>>

OrdersNext ==
    \/ \E block_index \in BlockHeights : OrdersNewBlock(block_index)
    \/ \E order \in InsertArgs : OrdersInsert(order)
    \/ \E tx_hash \in OrderHashes, order \in UpdateArgs : OrdersUpdate(tx_hash, order)
    \/ OrdersClean

\* ---- OrdersCache.get_matching_orders called on its own ----

MaxMatchRows == 3
MaxMatchCalls == 1

MatchHashes == DOMAIN HashRank
MatchAssets == {"XCP", "BTC"}

\* the orders of the order book: two assets traded one for the other
MatchRows ==
    {[tx_index |-> i, tx_hash |-> h, block_index |-> 10, give_asset |-> g,
      get_asset |-> CHOOSE a \in MatchAssets : a # g, status |-> st] :
        i \in 1..2, h \in MatchHashes, g \in MatchAssets, st \in {"open", "filled"}}

\* the orders inserted so far, one per transaction, in any order of insertion
RECURSIVE MatchBooks(_)
MatchBooks(n) ==
    IF n = 0 THEN {<<>>}
    ELSE LET shorter == MatchBooks(n - 1)
         IN shorter \cup
            {Append(b, r) : <<b, r>> \in
                {x \in {y \in shorter : Len(y) = n - 1} \X MatchRows :
                    \A i \in 1..Len(x[1]) : x[1][i].tx_hash # x[2].tx_hash}}

OrdersMatch(tx_hash, give_asset, get_asset) ==
    /\ Len(cachecall.log) < MaxMatchCalls
    /\ give_asset # get_asset
    /\ Called("get_matching_orders",
              [tx_hash |-> tx_hash, give_asset |-> give_asset, get_asset |-> get_asset],
              get_matching_orders(orders_cache, tx_hash, give_asset, get_asset))
    /\ UNCHANGED <<chain, blocks, transactions, issuances, balances, orders, messages,
                   asset_cache, utxo_cache, orders_cache, printed,
                   mode, target, recorded, rollbacks>>
    /\ UNCHANGED <<poolVars, followVars, procVars, verifier, parser, traversal, destructions, current_state>>

MatchNext ==
    \E tx_hash \in MatchHashes, give_asset \in MatchAssets, get_asset \in MatchAssets :
        OrdersMatch(tx_hash, give_asset, get_asset)

\* ---- UTXOBalancesCache.__init__ over an allow-list of known sources ----

MaxKnownTxs == 3

\* gettxinfo.KNOWN_SOURCES: tx_hash -> the source forced on that transaction
KNOWN_SOURCES == [k1 |-> "s:0", k2 |-> ""]

\* the output a transaction creates, by tx_index, and the hashes of the
\* transactions that are not on the allow-list
OutputNames == <<"a:1", "b:0", "c:0", "d:0", "e:0">>
TxHashNames == <<"t1", "t2", "t3", "t4", "t5">>

\* outputs created outside the table; "a:1" is a proper prefix of "a:10"
ExternalUtxos == {"a:10", "x:0"}
ProperPrefixes == {<<"a:1", "a:10">>}

TraversedTypes == {"utxomove", "attach", "detach"}
KnownTxTypes == TraversedTypes \cup {"send"}

\* the source lists of a transaction: one or two distinct unspent outputs
SourceLists(avail) ==
    {<<u>> : u \in avail} \cup {<<u, v>> : <<u, v>> \in {w \in avail \X avail : w[1] # w[2]}}

\* the rows that can follow table t: a transaction spends outputs that exist and
\* are unspent, and creates its own output
RowsAfter(t) ==
    LET i == Len(t) + 1
        spent == UNION {Range(t[j].sources) : j \in 1..Len(t)}
        produced == {t[j].destination : j \in 1..Len(t)} \ {""}
        avail == (ExternalUtxos \cup produced) \ spent
    IN IF i = 1
       THEN {[tx_index |-> 1, tx_hash |-> h, sources |-> <<"s:0">>, destination |-> d,
              transaction_type |-> "utxomove", valid |-> TRUE] :
                h \in {"k1", "k2", TxHashNames[1]}, d \in {OutputNames[1], ""}}
       ELSE {[tx_index |-> i, tx_hash |-> TxHashNames[i], sources |-> src, destination |-> d,
              transaction_type |-> ty, valid |-> TRUE] :
                src \in SourceLists(avail), d \in {OutputNames[i], ""}, ty \in KnownTxTypes}

\* the contents of table transactions, up to n rows
RECURSIVE KnownTables(_)
KnownTables(n) ==
    IF n = 0 THEN {<<>>}
    ELSE LET shorter == KnownTables(n - 1)
         IN shorter \cup UNION {{Append(t, row) : row \in RowsAfter(t)} :
                                   t \in {x \in shorter : Len(x) = n - 1}}

\* tables whose rows name any outputs, as a test writes them: destinations may
\* form a cycle and several transactions may have the same destination
LoopUtxos == {"a:1", "b:0"}
LoopTypes == {"utxomove", "detach"}
LoopRows(i) ==
    IF i = 1
    THEN {[tx_index |-> 1, tx_hash |-> "k1", sources |-> <<"s:0">>, destination |-> d,
           transaction_type |-> "utxomove", valid |-> TRUE] : d \in LoopUtxos}
    ELSE {[tx_index |-> i, tx_hash |-> TxHashNames[i], sources |-> src, destination |-> d,
           transaction_type |-> ty, valid |-> TRUE] :
             src \in SourceLists(LoopUtxos), d \in LoopUtxos \cup {""}, ty \in LoopTypes}

RECURSIVE LoopTables(_)
LoopTables(n) ==
    IF n = 0 THEN {<<>>}
    ELSE LET shorter == LoopTables(n - 1)
         IN shorter \cup UNION {{Append(t, row) : row \in LoopRows(n)} :
                                   t \in {x \in shorter : Len(x) = n - 1}}


\* utxos_info LIKE 'utxo%': the text "sources destination ..." starts with utxo,
\* that is, its first source does
LikePrefix(tx, utxo) ==
    /\ Len(tx.sources) >= 1
    /\ \/ tx.sources[1] = utxo
       \/ <<utxo, tx.sources[1]>> \in ProperPrefixes

MapSet(m, u) == [k \in DOMAIN m \cup {u} |-> IF k = u THEN TRUE ELSE m[k]]
MapPop(m, u) == [k \in DOMAIN m \ {u} |-> m[k]]

\* the destinations of the KNOWN_SOURCES transactions found in the table
KnownSeeds(txs) ==
    {txs[i].destination :
        i \in {j \in 1..Len(txs) : /\ txs[j].tx_hash \in DOMAIN KNOWN_SOURCES
                                   /\ KNOWN_SOURCES[txs[j].tx_hash] # ""
                                   /\ txs[j].destination # ""}}

RECURSIVE MapSetAll(_, _)
MapSetAll(m, us) ==
    IF us = {} THEN m
    ELSE LET u == CHOOSE x \in us : TRUE IN MapSetAll(MapSet(m, u), us \ {u})

\* the for loop over the transactions selected for utxo, in tx_index order
RECURSIVE ConsumedBy(_, _, _, _)
ConsumedBy(st, utxo, txs, i) ==
    IF i > Len(txs) THEN st
    ELSE LET tx == txs[i]
             selected == tx.transaction_type \in TraversedTypes /\ LikePrefix(tx, utxo)
             adds == tx.destination # "" /\ tx.transaction_type # "detach"
         IN IF selected /\ utxo \in Range(tx.sources)
            THEN ConsumedBy(
                   [map |-> IF adds THEN MapSet(MapPop(st.map, utxo), tx.destination)
                            ELSE MapPop(st.map, utxo),
                    pending |-> IF adds /\ tx.destination \notin st.processed
                                THEN st.pending \cup {tx.destination} ELSE st.pending,
                    processed |-> st.processed],
                   utxo, txs, i + 1)
            ELSE ConsumedBy(st, utxo, txs, i + 1)

\* UTXOBalancesCache(db) up to the while loop: the balances, the invalid
\* attaches, and the destinations of the known sources
KnownConstruct ==
    /\ traversal.phase = "none"
    /\ LET loaded == UtxoCacheInit(balances, transactions)
           seeds == KnownSeeds(transactions)
       IN /\ utxo_cache' = [loaded EXCEPT
                               !.utxos_with_balance = MapSetAll(@, seeds)]
          /\ traversal' = [phase |-> "loop",
                           before |-> DOMAIN loaded.utxos_with_balance,
                           pending_utxos |-> seeds, processed |-> {},
                           requeried |-> {}]
    /\ UNCHANGED <<chain, blocks, transactions, issuances, balances, orders, messages,
                   asset_cache, orders_cache, printed, mode, target, recorded, rollbacks>>
    /\ UNCHANGED <<poolVars, followVars, procVars, verifier, parser, cachecall, destructions, current_state>>

\* variant: the loop keeps no record of the UTXOs it has gone through
KnownPop_ForgetsProcessed(utxo) ==
    /\ traversal.phase = "loop"
    /\ utxo \in traversal.pending_utxos
    /\ LET rest == traversal.pending_utxos \ {utxo}
           st == ConsumedBy([map |-> utxo_cache.utxos_with_balance,
                             pending |-> rest, processed |-> {}],
                            utxo, transactions, 1)
       IN /\ utxo_cache' = [utxo_cache EXCEPT !.utxos_with_balance = st.map]
          /\ traversal' = [traversal EXCEPT
                              !.pending_utxos = st.pending,
                              !.processed = traversal.processed \cup {utxo},
                              !.requeried = @ \cup ({utxo} \cap traversal.processed)]
    /\ UNCHANGED <<chain, blocks, transactions, issuances, balances, orders, messages,
                   asset_cache, orders_cache, printed, mode, target, recorded, rollbacks>>
    /\ UNCHANGED <<poolVars, followVars, procVars, verifier, parser, cachecall, destructions, current_state>>

\* one turn of the while loop: pending_utxos.pop() gives any pending UTXO; the
\* store is queried for the transactions that spend it, unless it is in
\* processed (requeried: the UTXOs the store was asked about again)
KnownPop(utxo) ==
    /\ traversal.phase = "loop"
    /\ utxo \in traversal.pending_utxos
    /\ LET rest == traversal.pending_utxos \ {utxo}
       IN IF utxo \in traversal.processed
          THEN /\ traversal' = [traversal EXCEPT !.pending_utxos = rest]
               /\ UNCHANGED utxo_cache
          ELSE LET st == ConsumedBy([map |-> utxo_cache.utxos_with_balance,
                                     pending |-> rest,
                                     processed |-> traversal.processed \cup {utxo}],
                                    utxo, transactions, 1)
               IN /\ utxo_cache' = [utxo_cache EXCEPT !.utxos_with_balance = st.map]
                  /\ traversal' = [traversal EXCEPT
                                      !.pending_utxos = st.pending,
                                      !.processed = st.processed,
                                      !.requeried = @ \cup ({utxo} \cap traversal.processed)]
    /\ UNCHANGED <<chain, blocks, transactions, issuances, balances, orders, messages,
                   asset_cache, orders_cache, printed, mode, target, recorded, rollbacks>>
    /\ UNCHANGED <<poolVars, followVars, procVars, verifier, parser, cachecall, destructions, current_state>>

\* the while loop ends when nothing is pending
KnownDone ==
    /\ traversal.phase = "loop"
    /\ traversal.pending_utxos = {}
    /\ traversal' = [traversal EXCEPT !.phase = "done"]
    /\ UNCHANGED <<chain, blocks, transactions, issuances, balances, orders, messages,
                   asset_cache, utxo_cache, orders_cache, printed,
                   mode, target, recorded, rollbacks>>
    /\ UNCHANGED <<poolVars, followVars, procVars, verifier, parser, cachecall, destructions, current_state>>

KnownNext ==
    \/ KnownConstruct
    \/ \E utxo \in Range(OutputNames) : KnownPop(utxo)
    \/ KnownDone

\* ---- the follower (parser/follow.py: BlockchainWatcher) ----
\* follow.py is not part of the sources at hand: the handlers are written from
\* test/units/parser/follow_test.py and, where the tests say nothing, from the
\* specification's section on the follow mode

\* the network's limits on the pending mempool batch
MaxBatchSize == 2
IdleTimeout == 2
\* the clock stops here; so many notifications are followed
MaxClock == 3
MaxMessages == 3

\* the unconfirmed transactions and the sequence number their notifications carry
MempoolTxs == {"t1", "t2"}
SequenceOf == [t1 |-> 1, t2 |-> 2]
Labels == {"A", "R"}
\* the ways socket.recv_multipart fails
TransportErrors == {"EAGAIN", "ZMQError", "Exception"}

\* dict operations on hash_by_sequence, a set of <<sequence, hash>>
SequenceKeys(map) == {e[1] : e \in map}
HashAt(map, sequence) == (CHOOSE e \in map : e[1] = sequence)[2]
WithoutSequence(map, sequence) == {e \in map : e[1] # sequence}

\* what the follower has processed, in order
Followed(w, topic, tx) == Append(w.received, [topic |-> topic, tx |-> tx])

\* variant: only the size of the batch counts
need_to_parse_mempool_block_SizeOnly(w) ==
    Len(w.mempool_block) >= MaxBatchSize

\* need_to_parse_mempool_block(): never for an empty batch; at the network's
\* size; when the network's timeout has passed since the last parsing
need_to_parse_mempool_block(w) ==
    IF Len(w.mempool_block) = 0 THEN FALSE
    ELSE IF Len(w.mempool_block) >= MaxBatchSize THEN TRUE
    ELSE w.now - w.last_mempool_parsing_time >= IdleTimeout

\* receive_hashtx(body, sequence)
receive_hashtx(w, tx_hash, sequence) ==
    [w EXCEPT !.hash_by_sequence =
                  WithoutSequence(w.hash_by_sequence, sequence) \cup {<<sequence, tx_hash>>}]

\* receive_rawtx(body, sequence): the hash is the one announced under the
\* sequence number, or the one of the deserialized body; a payload seen for the
\* first time is cached, one seen again is dropped from the cache
receive_rawtx(w, body, sequence) ==
    LET tx_hash == IF sequence \in SequenceKeys(w.hash_by_sequence)
                   THEN HashAt(w.hash_by_sequence, sequence)
                   ELSE body
    IN  [w EXCEPT !.hash_by_sequence = WithoutSequence(w.hash_by_sequence, sequence),
                  !.raw_tx_cache = IF tx_hash \in w.raw_tx_cache
                                   THEN w.raw_tx_cache \ {tx_hash}
                                   ELSE w.raw_tx_cache \cup {tx_hash}]

\* the batch goes to mempool.parse_mempool_transactions and is emptied
ParseMempoolBlock(w) ==
    [w EXCEPT !.parsed = Append(w.parsed, w.mempool_block),
              !.mempool_block = <<>>,
              !.mempool_block_hashes = <<>>,
              !.last_mempool_parsing_time = w.now]

\* receive_sequence(body): label R cleans the transaction from the mempool
\* tables; label A takes the payload from raw_tx_cache or from bitcoind
\* (rpc_found), appends it to the batch and parses the batch when it is due
receive_sequence(w, item_hash, label, rpc_found) ==
    IF label = "R" THEN w
    ELSE IF item_hash \notin w.raw_tx_cache /\ ~rpc_found THEN w
    ELSE LET w1 == [w EXCEPT !.mempool_block = Append(w.mempool_block, item_hash),
                             !.mempool_block_hashes = Append(w.mempool_block_hashes, item_hash)]
         IN  IF need_to_parse_mempool_block(w1) THEN ParseMempoolBlock(w1) ELSE w1

\* connect_to_zmq(): the subscription sockets are closed and opened again
connect_to_zmq(w) == [w EXCEPT !.connects = w.connects + 1]

\* variant: a failure of the transport is logged and nothing else
receive_multipart_error_KeepsSockets(w, kind) ==
    IF kind = "EAGAIN" THEN w
    ELSE [w EXCEPT !.reported = Append(w.reported, kind)]

\* receive_multipart(socket, topic_name) when recv_multipart fails: EAGAIN is
\* "no message", the handler returns; any other exception is captured and
\* connect_to_zmq() is called; another ZMQError is raised to the loop of
\* handle(), which by the specification reconnects and resumes
receive_multipart_error(w, kind) ==
    IF kind = "EAGAIN" THEN w
    ELSE connect_to_zmq([w EXCEPT !.reported = Append(w.reported, kind)])

\* time passes
WatcherTick ==
    /\ watcher.loop = "running"
    /\ watcher.now < MaxClock
    /\ watcher' = [watcher EXCEPT !.now = watcher.now + 1]
    /\ UNCHANGED <<poolVars, followVars, storeVars, chain, printed, mode, target, recorded,
                   rollbacks, verifier, parser, cachecall, traversal, destructions,
                   current_state, threads, stats>>

\* a notification of topic hashtx
ReceiveHashtx(tx) ==
    /\ watcher.loop = "running"
    /\ Len(watcher.received) < MaxMessages
    /\ watcher' = [receive_hashtx(watcher, tx, SequenceOf[tx])
                     EXCEPT !.received = Followed(watcher, "hashtx", tx)]
    /\ UNCHANGED <<poolVars, followVars, storeVars, chain, printed, mode, target, recorded,
                   rollbacks, verifier, parser, cachecall, traversal, destructions,
                   current_state, threads, stats>>

\* a notification of topic rawtx
ReceiveRawtx(tx) ==
    /\ watcher.loop = "running"
    /\ Len(watcher.received) < MaxMessages
    /\ watcher' = [receive_rawtx(watcher, tx, SequenceOf[tx])
                     EXCEPT !.received = Followed(watcher, "rawtx", tx)]
    /\ UNCHANGED <<poolVars, followVars, storeVars, chain, printed, mode, target, recorded,
                   rollbacks, verifier, parser, cachecall, traversal, destructions,
                   current_state, threads, stats>>

\* a notification of topic sequence
ReceiveSequence(tx, label, rpc_found) ==
    /\ watcher.loop = "running"
    /\ Len(watcher.received) < MaxMessages
    /\ watcher' = [receive_sequence(watcher, tx, label, rpc_found)
                     EXCEPT !.received = Followed(watcher, label, tx)]
    /\ UNCHANGED <<poolVars, followVars, storeVars, chain, printed, mode, target, recorded,
                   rollbacks, verifier, parser, cachecall, traversal, destructions,
                   current_state, threads, stats>>

\* recv_multipart raises
ReceiveMultipartError(kind) ==
    /\ watcher.loop = "running"
    /\ Len(watcher.received) < MaxMessages
    /\ watcher' = [receive_multipart_error(watcher, kind)
                     EXCEPT !.received = Followed(watcher, "error", kind)]
    /\ UNCHANGED <<poolVars, followVars, storeVars, chain, printed, mode, target, recorded,
                   rollbacks, verifier, parser, cachecall, traversal, destructions,
                   current_state, threads, stats>>

WatcherNext ==
    \/ WatcherTick
    \/ \E tx \in MempoolTxs : ReceiveHashtx(tx)
    \/ \E tx \in MempoolTxs : ReceiveRawtx(tx)
    \/ \E tx \in MempoolTxs, label \in Labels, rpc_found \in BOOLEAN :
          ReceiveSequence(tx, label, rpc_found)
    \/ \E kind \in TransportErrors : ReceiveMultipartError(kind)

\* ---- start_all() and the server thread (cli/server.py) ----

\* everything but the threads
notThreads == <<poolVars, followVars, storeVars, chain, printed, mode, target, recorded,
                rollbacks, verifier, parser, cachecall, traversal, destructions,
                current_state, watcher, stats>>

\* the two threads that call stop()
Callers == {"server", "main"}

\* where a thread is when stop() has returned to it: run_server() returns after
\* self.stop(), start_all() returns after its finally block
AfterStop(th) == IF th = "server" THEN "finally" ELSE "returned"

\* variant: stop() tests and sets self.stopped in one step, before the sequence
stop_check_Claims(th) ==
    IF threads.stopped
    THEN [threads EXCEPT ![th] = AfterStop(th),
                         !.ended = IF th = "server" THEN "return" ELSE @]
    ELSE [threads EXCEPT ![th] = "stop_sequence", !.stopped = TRUE]

\* stop(): if self.stopped: return
stop_check(th) ==
    IF threads.stopped
    THEN [threads EXCEPT ![th] = AfterStop(th),
                         !.ended = IF th = "server" THEN "return" ELSE @]
    ELSE [threads EXCEPT ![th] = "stop_sequence"]

\* stop(): from CurrentState().set_stopping() to the stop of the profilers
stop_sequence(th) ==
    [threads EXCEPT ![th] = "stop_set", !.sequences = @ + 1]

\* stop(): self.stopped = True, and the return
stop_set(th) ==
    [threads EXCEPT ![th] = AfterStop(th), !.stopped = TRUE,
                    !.ended = IF th = "server" THEN "return" ELSE @]

\* start_all(): server.start()
ServerStart ==
    /\ threads.main = "start"
    /\ threads' = [threads EXCEPT !.main = "loop", !.server = "run_server"]
    /\ UNCHANGED notThreads

\* run_server() or the follower it started raises
RunServerRaises ==
    /\ threads.server \in {"run_server", "watching"}
    /\ threads' = [threads EXCEPT !.server = "finally", !.ended = "exception"]
    /\ UNCHANGED notThreads

\* run_server(): the API server stopped unexpectedly, return
RunServerReturnsEarly ==
    /\ threads.server = "run_server"
    /\ threads' = [threads EXCEPT !.server = "finally", !.ended = "return"]
    /\ UNCHANGED notThreads

\* run_server(): catch_up() is done; stop_when_ready calls self.stop(), or the
\* follower is started
RunServerReady ==
    /\ threads.server = "run_server"
    /\ threads' = [threads EXCEPT
                      !.server = IF threads.stop_when_ready THEN "stop_check" ELSE "watching"]
    /\ UNCHANGED notThreads

\* follower_daemon.start() returns once a shutdown sequence stopped the follower
FollowerStopped ==
    /\ threads.server = "watching"
    /\ threads.sequences > 0
    /\ threads' = [threads EXCEPT !.server = "finally", !.ended = "normal"]
    /\ UNCHANGED notThreads

\* variant: the server thread ends without a signal to the main thread
RunFinally_Silent ==
    /\ threads.server = "finally"
    /\ threads' = [threads EXCEPT !.server = "ended"]
    /\ UNCHANGED notThreads

\* run(): finally: _thread.interrupt_main()
RunFinally ==
    /\ threads.server = "finally"
    /\ threads' = [threads EXCEPT !.server = "ended", !.interrupt = "pending"]
    /\ UNCHANGED notThreads

\* the steps of stop() in either thread
StopCheck(th) ==
    /\ threads[th] = "stop_check"
    /\ threads' = stop_check(th)
    /\ UNCHANGED notThreads

StopSequence(th) ==
    /\ threads[th] = "stop_sequence"
    /\ threads' = stop_sequence(th)
    /\ UNCHANGED notThreads

StopSet(th) ==
    /\ threads[th] = "stop_set"
    /\ threads' = stop_set(th)
    /\ UNCHANGED notThreads

\* SIGTERM: handle_sigterm sets shutdown_event
Sigterm ==
    /\ threads.main \notin {"start", "returned", "raised"}
    /\ ~threads.shutdown_event
    /\ threads' = [threads EXCEPT !.shutdown_event = TRUE]
    /\ UNCHANGED notThreads

\* SIGINT from the terminal while start_all() waits
Sigint ==
    /\ threads.main = "loop"
    /\ threads.interrupt = "none"
    /\ threads' = [threads EXCEPT !.interrupt = "pending"]
    /\ UNCHANGED notThreads

\* start_all(): the condition of the while loop is false
MainLeaveLoop ==
    /\ threads.main = "loop"
    /\ threads.shutdown_event \/ threads.stopped
    /\ threads' = [threads EXCEPT !.main = "finally"]
    /\ UNCHANGED notThreads

\* start_all(): KeyboardInterrupt inside the try block; it is logged
MainInterrupted ==
    /\ threads.main = "loop"
    /\ threads.interrupt = "pending"
    /\ threads' = [threads EXCEPT !.main = "finally", !.interrupt = "delivered"]
    /\ UNCHANGED notThreads

\* start_all(): finally: server.stop()
MainCallStop ==
    /\ threads.main = "finally"
    /\ threads' = [threads EXCEPT !.main = "stop_check", !.stop_calls = @ + 1]
    /\ UNCHANGED notThreads

\* KeyboardInterrupt inside stop() called from the finally block: it leaves
\* stop() and start_all()
MainStopInterrupted ==
    /\ threads.main \in {"stop_check", "stop_sequence", "stop_set"}
    /\ threads.interrupt = "pending"
    /\ threads' = [threads EXCEPT !.main = "raised", !.interrupt = "delivered"]
    /\ UNCHANGED notThreads

ThreadsNext ==
    \/ ServerStart
    \/ RunServerRaises
    \/ RunServerReturnsEarly
    \/ RunServerReady
    \/ FollowerStopped
    \/ RunFinally
    \/ \E th \in Callers : StopCheck(th)
    \/ \E th \in Callers : StopSequence(th)
    \/ \E th \in Callers : StopSet(th)
    \/ Sigterm
    \/ Sigint
    \/ MainLeaveLoop
    \/ MainInterrupted
    \/ MainCallStop
    \/ MainStopInterrupted

\* ---- the specifications ----

\* the pool alone: the ledger is at rest
LedgerAtRest ==
    /\ chain = <<>>
    /\ StoreInit
    /\ FollowAtRest
    /\ UnitsAtRest
    /\ mode = "idle"
    /\ target = 0
    /\ recorded = <<>>
    /\ rollbacks = 0

\* the ledger alone: the pool is unused
PoolAtRest ==
    /\ PoolInit
    /\ max_connections = 0
    /\ pool_size = 0

Init == PoolInit /\ LedgerAtRest

Next == PoolNext

Spec == Init /\ [][Next]_vars

\* the pool with a monitor that reads its statistics
NextStats ==
    \/ PoolNext
    \/ \E t \in Threads : GetStats(t)

SpecStats == Init /\ [][NextStats]_vars

InitLedger == PoolAtRest /\ LedgerInit

NextLedger == LedgerNext

SpecLedger == InitLedger /\ [][NextLedger]_vars

\* the pipeline over chains of issuances, attaches and orders
InitCaches ==
    /\ PoolAtRest
    /\ chain \in CacheChains
    /\ StoreInit
    /\ FollowAtRest
    /\ UnitsAtRest
    /\ mode = "idle"
    /\ target = 0
    /\ recorded = <<>>
    /\ rollbacks = 0

NextCaches == LedgerNext

SpecCaches == InitCaches /\ [][NextCaches]_vars

\* the server and the follower
InitFollow ==
    /\ PoolAtRest
    /\ chain \in SourceChains
    /\ StoreInit
    /\ FollowAtRest
    /\ UnitsAtRest
    /\ mode = "idle"
    /\ target = 0
    /\ recorded = <<>>
    /\ rollbacks = 0

NextFollow == FollowNext

SpecFollow == InitFollow /\ [][NextFollow]_vars

\* one call of the consensus verifier
InitVerifier ==
    /\ PoolAtRest
    /\ chain = [i \in 1..NumBlocks |-> <<>>]
    /\ StoreInit
    /\ FollowAtRest
    /\ mode = "idle"
    /\ target = 0
    /\ recorded = <<>>
    /\ rollbacks = 0
    /\ ParserAtRest
    /\ CacheCallsAtRest
    /\ TraversalAtRest
    /\ WatcherAtRest
    /\ ThreadsAtRest
    /\ StatsAtRest
    /\ NoDestructions
    /\ CurrentStateAtRest
    /\ verifier \in [field : Fields,
                      previous_consensus_hash : {NoHash} \cup PreviousHashes,
                      content : Contents,
                      previous_row : {NoHash} \cup PreviousHashes,
                      found_hash : StoredHashes,
                      block_index : CheckpointBlocks,
                      checkpoints : CheckpointTables,
                      done : {FALSE}, error : {"none"}, calculated_hash : {NoHash}]

NextVerifier == ConsensusHashCall

SpecVerifier == InitVerifier /\ [][NextVerifier]_vars

\* calls of parse_tx
InitParseTx ==
    /\ PoolAtRest
    /\ chain = [i \in 1..NumBlocks |-> <<>>]
    /\ StoreInit
    /\ FollowAtRest
    /\ UnitsAtRest
    /\ mode = "idle"
    /\ target = 0
    /\ recorded = <<>>
    /\ rollbacks = 0

NextParseTx == \E tx \in RawTx : ParseTxCall(tx)

SpecParseTx == InitParseTx /\ [][NextParseTx]_vars

\* catch-up over blocks of raw transactions
InitParse ==
    /\ PoolAtRest
    /\ chain \in RawChains
    /\ StoreInit
    /\ FollowAtRest
    /\ UnitsAtRest
    /\ mode = "idle"
    /\ target = 0
    /\ recorded = <<>>
    /\ rollbacks = 0

NextParse == ParseNext

SpecParse == InitParse /\ [][NextParse]_vars

\* calls on the UTXO cache, built over a store with some balances
InitUtxo ==
    /\ PoolAtRest
    /\ chain = [i \in 1..NumBlocks |-> <<>>]
    /\ blocks = <<>>
    /\ transactions = <<>>
    /\ issuances = <<>>
    /\ \E holding \in Holdings : balances = BalanceRows(holding, 1)
    /\ orders = <<>>
    /\ messages = <<>>
    /\ asset_cache = NoAssetCache
    /\ utxo_cache = UtxoCacheInit(balances, transactions)
    /\ orders_cache = NoOrdersCache
    /\ printed = "none"
    /\ FollowAtRest
    /\ UnitsAtRest
    /\ mode = "idle"
    /\ target = 0
    /\ recorded = <<>>
    /\ rollbacks = 0

NextUtxo == UtxoNext

SpecUtxo == InitUtxo /\ [][NextUtxo]_vars

\* construction of the UTXO cache over a table of transactions, one of them
\* (or none) on the allow-list of known sources
InitKnown ==
    /\ PoolAtRest
    /\ chain = [i \in 1..NumBlocks |-> <<>>]
    /\ blocks = <<>>
    /\ transactions \in KnownTables(MaxKnownTxs)
    /\ issuances = <<>>
    /\ balances \in {<<>>, <<[utxo |-> "x:0", asset |-> "A", quantity |-> 1,
                              block_index |-> 1, tx_index |-> 1]>>}
    /\ orders = <<>>
    /\ messages = <<>>
    /\ asset_cache = NoAssetCache
    /\ utxo_cache = NoUtxoCache
    /\ orders_cache = NoOrdersCache
    /\ printed = "none"
    /\ FollowAtRest
    /\ UnitsAtRest
    /\ mode = "idle"
    /\ target = 0
    /\ recorded = <<>>
    /\ rollbacks = 0

NextKnown == KnownNext

SpecKnown == InitKnown /\ [][NextKnown]_vars

\* the construction over tables with cycles and shared destinations; a loop
\* that can make a turn makes it
InitTraversal ==
    /\ PoolAtRest
    /\ chain = [i \in 1..NumBlocks |-> <<>>]
    /\ blocks = <<>>
    /\ transactions \in LoopTables(MaxKnownTxs)
    /\ issuances = <<>>
    /\ balances = <<>>
    /\ orders = <<>>
    /\ messages = <<>>
    /\ asset_cache = NoAssetCache
    /\ utxo_cache = NoUtxoCache
    /\ orders_cache = NoOrdersCache
    /\ printed = "none"
    /\ FollowAtRest
    /\ UnitsAtRest
    /\ mode = "idle"
    /\ target = 0
    /\ recorded = <<>>
    /\ rollbacks = 0

SpecTraversal == InitTraversal /\ [][NextKnown]_vars /\ WF_vars(NextKnown)

\* calls on the asset cache, built over a store with some issuances and destructions
InitAsset ==
    /\ PoolAtRest
    /\ chain = [i \in 1..NumBlocks |-> <<>>]
    /\ blocks = <<>>
    /\ transactions = <<>>
    /\ issuances \in IssuanceStores
    /\ destructions \in DestructionStores
    /\ balances = <<>>
    /\ orders = <<>>
    /\ messages = <<>>
    /\ asset_cache = AssetCacheInit(issuances, destructions)
    /\ utxo_cache = NoUtxoCache
    /\ orders_cache = NoOrdersCache
    /\ printed = "none"
    /\ FollowAtRest
    /\ VerifierAtRest
    /\ ParserAtRest
    /\ CacheCallsAtRest
    /\ TraversalAtRest
    /\ WatcherAtRest
    /\ ThreadsAtRest
    /\ StatsAtRest
    /\ CurrentStateAtRest
    /\ mode = "idle"
    /\ target = 0
    /\ recorded = <<>>
    /\ rollbacks = 0

NextAsset == AssetNext

SpecAsset == InitAsset /\ [][NextAsset]_vars

\* calls on the orders cache, built over a store without orders
InitOrders ==
    /\ PoolAtRest
    /\ chain = [i \in 1..NumBlocks |-> <<>>]
    /\ blocks = <<>>
    /\ transactions = <<>>
    /\ issuances = <<>>
    /\ balances = <<>>
    /\ orders = <<>>
    /\ messages = <<>>
    /\ asset_cache = NoAssetCache
    /\ utxo_cache = NoUtxoCache
    /\ current_state \in {[current_block_index |-> b] : b \in BlockHeights}
    /\ orders_cache = OrdersCacheInit(orders, current_state.current_block_index)
    /\ printed = "none"
    /\ FollowAtRest
    /\ VerifierAtRest
    /\ ParserAtRest
    /\ CacheCallsAtRest
    /\ TraversalAtRest
    /\ WatcherAtRest
    /\ ThreadsAtRest
    /\ StatsAtRest
    /\ NoDestructions
    /\ mode = "idle"
    /\ target = 0
    /\ recorded = <<>>
    /\ rollbacks = 0

NextOrders == OrdersNext

SpecOrders == InitOrders /\ [][NextOrders]_vars

\* a row of table orders
OrderRow(rowid, tx_hash, status) ==
    [rowid |-> rowid, tx_index |-> HashRank[tx_hash], tx_hash |-> tx_hash, block_index |-> 5,
     status |-> status, give_remaining |-> 1]

\* the stores the cache is built over: every change of an order adds a row; o1
\* has expired, or was filled, or o2 has expired after it was opened
OrderStores ==
    {<<OrderRow(1, "o1", "open"), OrderRow(2, "o1", "expired")>>,
     <<OrderRow(1, "o1", "open"), OrderRow(2, "o2", "open"), OrderRow(3, "o1", "filled")>>,
     <<OrderRow(1, "o1", "open"), OrderRow(2, "o2", "open"), OrderRow(3, "o2", "expired")>>}

\* calls on the orders cache, built over a store with orders
InitOrdersStore ==
    /\ PoolAtRest
    /\ chain = [i \in 1..NumBlocks |-> <<>>]
    /\ blocks = <<>>
    /\ transactions = <<>>
    /\ issuances = <<>>
    /\ balances = <<>>
    /\ orders \in OrderStores
    /\ messages = <<>>
    /\ asset_cache = NoAssetCache
    /\ utxo_cache = NoUtxoCache
    /\ current_state = [current_block_index |-> 10]
    /\ orders_cache = OrdersCacheInit(orders, current_state.current_block_index)
    /\ printed = "none"
    /\ FollowAtRest
    /\ VerifierAtRest
    /\ ParserAtRest
    /\ CacheCallsAtRest
    /\ TraversalAtRest
    /\ WatcherAtRest
    /\ ThreadsAtRest
    /\ StatsAtRest
    /\ NoDestructions
    /\ mode = "idle"
    /\ target = 0
    /\ recorded = <<>>
    /\ rollbacks = 0

SpecOrdersStore == InitOrdersStore /\ [][NextOrders]_vars

\* one query of the order book, over every book of up to MaxMatchRows orders
InitMatch ==
    /\ PoolAtRest
    /\ chain = [i \in 1..NumBlocks |-> <<>>]
    /\ blocks = <<>>
    /\ transactions = <<>>
    /\ issuances = <<>>
    /\ balances = <<>>
    /\ orders = <<>>
    /\ messages = <<>>
    /\ asset_cache = NoAssetCache
    /\ utxo_cache = NoUtxoCache
    /\ \E book \in MatchBooks(MaxMatchRows) :
          orders_cache = InsertOrders([NoOrdersCache EXCEPT !.exists = TRUE], book, 1, 10)
    /\ printed = "none"
    /\ FollowAtRest
    /\ VerifierAtRest
    /\ ParserAtRest
    /\ CacheCallsAtRest
    /\ TraversalAtRest
    /\ WatcherAtRest
    /\ ThreadsAtRest
    /\ StatsAtRest
    /\ NoDestructions
    /\ current_state = [current_block_index |-> 10]
    /\ mode = "idle"
    /\ target = 0
    /\ recorded = <<>>
    /\ rollbacks = 0

NextMatch == MatchNext

SpecMatch == InitMatch /\ [][NextMatch]_vars

\* the follower after its construction: the sockets are connected once
InitWatcher ==
    /\ PoolAtRest
    /\ chain = [i \in 1..NumBlocks |-> <<>>]
    /\ StoreInit
    /\ FollowAtRest
    /\ mode = "idle"
    /\ target = 0
    /\ recorded = <<>>
    /\ rollbacks = 0
    /\ VerifierAtRest
    /\ ParserAtRest
    /\ CacheCallsAtRest
    /\ TraversalAtRest
    /\ NoDestructions
    /\ CurrentStateAtRest
    /\ ThreadsAtRest
    /\ StatsAtRest
    /\ watcher = [mempool_block |-> <<>>, mempool_block_hashes |-> <<>>,
                  raw_tx_cache |-> {}, hash_by_sequence |-> {},
                  last_mempool_parsing_time |-> 0, now |-> 0,
                  parsed |-> <<>>, received |-> <<>>, connects |-> 1, reported |-> <<>>,
                  loop |-> "running"]

NextWatcher == WatcherNext

SpecWatcher == InitWatcher /\ [][NextWatcher]_vars

\* start_all(args, stop_when_ready) is entered; the server thread is not started
InitThreads ==
    /\ PoolAtRest
    /\ chain = [i \in 1..NumBlocks |-> <<>>]
    /\ StoreInit
    /\ FollowAtRest
    /\ mode = "idle"
    /\ target = 0
    /\ recorded = <<>>
    /\ rollbacks = 0
    /\ VerifierAtRest
    /\ ParserAtRest
    /\ CacheCallsAtRest
    /\ TraversalAtRest
    /\ WatcherAtRest
    /\ StatsAtRest
    /\ NoDestructions
    /\ CurrentStateAtRest
    /\ \E flag \in BOOLEAN :
          threads = [main |-> "start", server |-> "none", stopped |-> FALSE,
                     shutdown_event |-> FALSE, interrupt |-> "none",
                     stop_when_ready |-> flag, ended |-> "none", sequences |-> 0,
                     stop_calls |-> 0]

NextThreads == ThreadsNext

SpecThreads == InitThreads /\ [][NextThreads]_vars

\* the main thread is scheduled: it takes a pending interrupt, leaves its loop
\* and calls stop() when it can
SpecThreadsLive ==
    /\ SpecThreads
    /\ WF_vars(MainInterrupted \/ MainLeaveLoop \/ MainCallStop)


\* the server, its crashes and its readers
NextServer == ServerNext

SpecServer == InitFollow /\ [][NextServer]_vars

\* ---- claims about the connection pool ----

\* C1: with max_connections = K > 0, connection_count never exceeds K.
C1_CountWithinCap ==
    max_connections > 0 => connection_count <= max_connections

\* C2: with max_connections = 1, a thread that requested a fresh connection while
\* another thread held one is no longer blocked once that thread has left its
\* scope: while it still waits, some other thread holds or is handing over the slot.
C2_WaiterServedAfterExit ==
    \A t2 \in Threads :
        (/\ max_connections = 1 /\ ~closed
         /\ pc[t2] = "waiting" /\ site[t2] = "fresh" /\ held[t2] = <<>>)
        => \E t1 \in Threads \ {t2} :
              \/ held[t1] # <<>>
              \/ pc[t1] \in {"cc_create", "release", "woken", "cc_recheck"}

\* C4: close() wakes every thread waiting at the cap, a waiter woken on a closed pool
\* fails with DatabaseError (closed while waiting) and gets no connection, and once
\* close() has notified no thread is left waiting.
CloseNotifies == \E c \in Threads : pc[c] = "close_notify" /\ pc'[c] = "close_local"
C4_CloseWakesWaiters ==
    /\ [][CloseNotifies => (waiters' = {} /\ \A t \in waiters : pc'[t] = "woken")]_vars
    /\ [][\A t \in Threads :
            (closed /\ pc[t] = "woken" /\ pc'[t] # "woken")
            => (/\ pc'[t] = "idle"
                /\ result'[t] = "DatabaseError_closed"
                /\ held'[t] = held[t]
                /\ connection_count' = connection_count)]_vars
    /\ []((closed /\ \A c \in Threads : pc[c] # "close_notify") => waiters = {})

C4_Witness ==
    \E t \in Threads : closed /\ pc[t] = "idle" /\ result[t] = "DatabaseError_closed"

\* C5: a request whose wait at the cap times out fails with DatabaseError and
\* leaves connection_count as it was.
C5_TimeoutFailsCountUnchanged ==
    [][\A t \in Threads :
         /\ (pc[t] = "waiting" /\ pc'[t] = "timedout")
            => connection_count' = connection_count
         /\ (pc[t] = "timedout" /\ pc'[t] # "timedout")
            => (/\ pc'[t] = "idle"
                /\ result'[t] = "DatabaseError_timeout"
                /\ held'[t] = held[t]
                /\ connection_count' = connection_count)]_vars

C5_Witness ==
    \E t \in Threads : pc[t] = "idle" /\ result[t] = "DatabaseError_timeout"

\* C6: a request that replaces a cached connection failing the probe never ends
\* in an error.
C6_ReplacementNeverFails ==
    \A t \in Threads : (site[t] = "replace" /\ pc[t] = "idle") => result[t] = "ok"

\* C7: on a closed pool an acquisition yields a temporary handle, uncounted and
\* never put on a stack, and its scope exit closes it.
IsEphemeral(cs, id) == id \in DOMAIN cs /\ ~cs[id].pooled
C7_ClosedPoolEphemeral ==
    /\ [][\A t \in Threads :
            (closed /\ pc[t] = "idle" /\ Len(held'[t]) > Len(held[t]))
            => (/\ IsEphemeral(conns', Last(held'[t]))
                /\ connection_count' = connection_count
                /\ stack' = stack
                /\ pc'[t] = "idle")]_vars
    /\ [][\A t \in Threads :
            (/\ held[t] # <<>> /\ IsEphemeral(conns, Last(held[t]))
             /\ Len(held'[t]) < Len(held[t]))
            => (/\ held'[t] = Front(held[t])
                /\ Last(held[t]) \notin DOMAIN conns'
                /\ connection_count' = connection_count
                /\ stack' = stack
                /\ pc'[t] = "idle")]_vars
    /\ [](\A t \in Threads : \A i \in 1..Len(stack[t]) : conns[stack[t][i]].pooled)

C7_Witness ==
    \E t \in Threads :
        closed /\ held[t] # <<>> /\ IsEphemeral(conns, Last(held[t])) /\ connection_count > 0

\* C8: close() empties the calling thread's stack and closes those connections;
\* no step of close() touches the stack or the cached connections of another thread.
CloseStep(c) ==
    \/ pc[c] = "idle" /\ pc'[c] = "close_notify"
    \/ pc[c] = "close_notify" /\ pc'[c] = "close_local"
    \/ pc[c] = "close_local" /\ pc'[c] = "idle"
C8_CloseOnlyOwnCache ==
    [][\A c \in Threads :
         /\ (pc[c] = "close_local" /\ pc'[c] = "idle")
            => (stack'[c] = <<>> /\ Range(stack[c]) \cap DOMAIN conns' = {})
         /\ CloseStep(c)
            => \A u \in Threads \ {c} :
                  /\ stack'[u] = stack[u]
                  /\ \A id \in Range(stack[u]) : id \in DOMAIN conns' /\ conns'[id] = conns[id]]_vars

C8_Witness ==
    /\ closed
    /\ \A c \in Threads : pc[c] \notin {"close_notify", "close_local"}
    /\ \E u \in Threads : stack[u] # <<>> /\ Range(stack[u]) \subseteq DOMAIN conns
    /\ connection_count > Cardinality({id \in DOMAIN conns : conns[id].pooled})

\* C9: once close() has returned and a thread has used the closed pool (taken and
\* left a temporary handle), none of that thread's cached connections is still open.
C9_OthersCleanUpOnNextUse ==
    [][\A t \in Threads :
         (/\ closed /\ \A c \in Threads : pc[c] \notin {"close_notify", "close_local"}
          /\ pc[t] = "idle" /\ held[t] # <<>>
          /\ IsEphemeral(conns, Last(held[t]))
          /\ held'[t] = Front(held[t]))
         => stack'[t] = <<>>]_vars

\* C10: leaving a scope of an open pool caches the connection when the thread's stack
\* holds fewer than DB_CONNECTION_POOL_SIZE, else closes it and the release then
\* decrements connection_count; no stack ever exceeds DB_CONNECTION_POOL_SIZE.
LeavesPooledScope(t) ==
    /\ pc[t] = "idle" /\ held[t] # <<>> /\ held'[t] = Front(held[t])
    /\ conns[Last(held[t])].pooled
C10_StackBounded ==
    /\ [](\A t \in Threads : Len(stack[t]) <= pool_size)
    /\ [][\A t \in Threads :
            (LeavesPooledScope(t) /\ ~closed)
            => IF Len(stack[t]) < pool_size
               THEN /\ stack'[t] = Append(stack[t], Last(held[t]))
                    /\ conns' = conns
                    /\ connection_count' = connection_count
                    /\ pc'[t] = "idle"
               ELSE /\ stack'[t] = stack[t]
                    /\ Last(held[t]) \notin DOMAIN conns'
                    /\ pc'[t] = "release"]_vars
    /\ [][\A t \in Threads :
            (pc[t] = "release" /\ pc'[t] # "release")
            => connection_count' = connection_count - 1]_vars

C10_Witness ==
    \E t \in Threads :
        /\ ~closed /\ pc[t] = "release"
        /\ pool_size > 0 /\ Len(stack[t]) = pool_size

\* C11: a pooled connection is held by, or cached on the stack of, at most one
\* thread, the one that opened it; an open connection handed out again goes to the
\* thread on whose stack it was.
Places(t) == Range(held[t]) \cup Range(stack[t])
C11_NeverShared ==
    /\ [](\A t \in Threads :
            /\ Places(t) \subseteq DOMAIN conns
            /\ \A id \in Places(t) : conns[id].owner = t
            /\ Cardinality(Places(t)) = Len(held[t]) + Len(stack[t])
            /\ \A u \in Threads \ {t} : Places(t) \cap Places(u) = {})
    /\ [][\A t \in Threads :
            (Len(held'[t]) > Len(held[t]) /\ Last(held'[t]) \in DOMAIN conns)
            => (/\ stack[t] # <<>>
                /\ Last(held'[t]) = Last(stack[t])
                /\ stack'[t] = Front(stack[t])
                /\ \A u \in Threads \ {t} : stack'[u] = stack[u])]_vars

C11_Witness ==
    \E t \in Threads : \E u \in Threads \ {t} :
        /\ site[t] = "reuse" /\ held[t] # <<>> /\ conns[Last(held[t])].pooled
        /\ stack[u] # <<>>

\* C12: every handle connection() yields, pooled or temporary, and every connection
\* the pool keeps, is opened read-only.
C12_AllReadOnly ==
    /\ \A id \in DOMAIN conns : conns[id].read_only
    /\ \A t \in Threads : \A i \in 1..Len(held[t]) :
          held[t][i] \in DOMAIN conns /\ conns[held[t][i]].read_only

C12_Witness ==
    \E t \in Threads : \E u \in Threads \ {t} :
        /\ held[t] # <<>> /\ conns[Last(held[t])].pooled
        /\ held[u] # <<>> /\ ~conns[Last(held[u])].pooled

\* ---- claims about the block pipeline ----

\* C3: after a rollback or reparse to any index at or below the tip, every block
\* applied again carries the ledger_hash, txlist_hash and messages_hash it had when
\* it was first applied.
C3_ReparseSameHashes ==
    \A i \in 1..Len(blocks) :
        i <= Len(recorded)
        => /\ blocks[i].ledger_hash = recorded[i].ledger_hash
           /\ blocks[i].txlist_hash = recorded[i].txlist_hash
           /\ blocks[i].messages_hash = recorded[i].messages_hash

C3_Witness ==
    /\ rollbacks > 0
    /\ mode = "idle"
    /\ Len(recorded) = NumBlocks
    /\ Tip = NumBlocks
    /\ \E i \in 1..Len(issuances) : issuances[i].reissuance

\* C14: rollback(N) with N at or below the tip removes every block, transaction and
\* event row with block_index >= N, keeps every row below N, and leaves the tip at N - 1.
RowsBelow(table, N) == {i \in 1..Len(table) : table[i].block_index < N}
KeepsExactlyBelow(table, after, N) ==
    /\ Len(after) = Cardinality(RowsBelow(table, N))
    /\ \A i \in 1..Len(after) : after[i] = table[i] /\ after[i].block_index < N
C14_RollbackRemovesFrom ==
    [][\A N \in 1..NumBlocks :
         (Rollback(N) /\ N <= Tip)
         => (/\ KeepsExactlyBelow(blocks, blocks', N)
             /\ KeepsExactlyBelow(transactions, transactions', N)
             /\ KeepsExactlyBelow(messages, messages', N)
             /\ Len(blocks') = N - 1
             /\ (N > 1 => blocks'[N - 1].block_index = N - 1))]_vars

C14_Witness ==
    /\ rollbacks = 1 /\ mode = "idle"
    /\ Tip >= 1 /\ Tip < Len(recorded)
    /\ transactions # <<>> /\ messages # <<>>

\* C15: rollback(N) and reparse(N) with N above the tip change no block, transaction
\* or event row, leave the tip where it was and start nothing.
C15_FutureIndexNoChange ==
    [][\A N \in 1..(NumBlocks + 1) :
         ((Rollback(N) \/ Reparse(N)) /\ N > Tip)
         => (/\ blocks' = blocks
             /\ transactions' = transactions
             /\ messages' = messages
             /\ issuances' = issuances
             /\ mode' = "idle")]_vars

C15_Witness ==
    /\ printed \in {"No need to rollback", "No need to reparse"}
    /\ mode = "idle" /\ Tip >= 1 /\ transactions # <<>> /\ messages # <<>>

\* C16: a rollback or reparse drops the three cache instances, so that the next use
\* rebuilds them from the store: a UTXO whose only balance rows (and invalid attaches)
\* were in removed blocks reports has_balance false, and once the operation is over
\* every entry of a cache comes from a row the store still holds.
OnlyInRemoved(u, N) ==
    /\ \A i \in 1..Len(balances) : balances[i].utxo = u => balances[i].block_index >= N
    /\ \A i \in 1..Len(transactions) :
          transactions[i].destination = u => transactions[i].block_index >= N
TableRows(table) == {table[i] : i \in 1..Len(table)}
CachesFromStore ==
    /\ asset_cache.exists =>
          /\ \A a \in DOMAIN asset_cache.assets : asset_cache.assets[a] \in TableRows(issuances)
          /\ \A a \in DOMAIN asset_cache.assets_total_issued :
                asset_cache.assets_total_issued[a] = SumQuantity(issuances, ValidRows(issuances, a))
    /\ utxo_cache.exists =>
          \A u \in DOMAIN utxo_cache.utxos_with_balance :
              \E i \in 1..Len(transactions) : transactions[i].destination = u
    /\ orders_cache.exists => TableRows(orders_cache.rows) \subseteq TableRows(orders)
    /\ \A u \in Utxos :
          has_balance(UtxoCacheInstance(utxo_cache, balances, transactions), balances, u)
          => \E i \in 1..Len(transactions) :
                transactions[i].destination = u /\ transactions[i].block_index <= Tip
C16_CachesRebuiltAfterRollback ==
    /\ [][\A N \in 1..NumBlocks :
            ((Rollback(N) \/ Reparse(N)) /\ N <= Tip)
            => (/\ ~asset_cache'.exists /\ ~utxo_cache'.exists /\ ~orders_cache'.exists
                /\ \A u \in Utxos :
                      OnlyInRemoved(u, N)
                      => ~has_balance(UtxoCacheInstance(utxo_cache', balances', transactions'),
                                      balances', u))]_vars
    /\ []((rollbacks > 0 /\ mode = "idle") => CachesFromStore)

C16_Witness ==
    /\ rollbacks > 0 /\ mode = "idle" /\ printed = "none"
    /\ Tip >= 1 /\ Tip < Len(recorded)
    /\ \E i \in 1..Tip : chain[i] # <<>> /\ chain[i][1].type = "issuance"
    /\ \E j \in (Tip + 1)..Len(recorded) : chain[j] # <<>> /\ chain[j][1].type = "attach"
    /\ \A k \in 1..Tip : chain[k] # <<>> => chain[k][1].type # "attach"
    /\ ~utxo_cache.exists
    /\ ~has_balance(UtxoCacheInstance(utxo_cache, balances, transactions), balances, "u1")

\* ---- claims about the server and the follower ----

\* C13: a reader never gets a partially applied block: every block row it reads
\* carries its ledger_hash.
C13_ReaderSeesAppliedBlocks ==
    \A i \in 1..Len(observed) : observed[i].ledger_hash # NoHash

\* handle_reorg() is about to run on a local chain up to height H = Tip while the
\* source has a block at H whose parent is not the local block at H - 1
ForkBelowTip ==
    /\ mode = "reorg"
    /\ Tip >= 2
    /\ Len(chain) >= Tip
    /\ SourceHash(chain, Tip - 1) # LocalHash(Tip - 1)

\* the highest height up to the given one at which local and source hashes agree
AgreedAtOrBelow(height) ==
    CHOOSE p \in 0..height :
        /\ SourceHash(chain, p) = LocalHash(p)
        /\ \A q \in (p + 1)..height : SourceHash(chain, q) # LocalHash(q)

\* C17 as stated: in that case handle_reorg() leaves the tip at H - 2 and catch-up
\* resumes.
C17_ReorgLeavesTipAtHMinus2 ==
    [][(ForkBelowTip /\ mode' = "catchup") => Len(blocks') = Tip - 2]_vars

\* C17 amended: in that case handle_reorg() leaves exactly the local blocks up to
\* the highest height at or below H - 2 where local and source hashes agree (H - 2
\* itself when they agree there), catch-up resumes, and the next block stored is
\* the source's block above that height.
C17_ReorgLeavesAgreedPrefix ==
    /\ [][(ForkBelowTip /\ mode' # "reorg") =>
             /\ mode' = "catchup"
             /\ blocks' = SubSeq(blocks, 1, AgreedAtOrBelow(Tip - 2))
             /\ (SourceHash(chain, Tip - 2) = LocalHash(Tip - 2) => Len(blocks') = Tip - 2)]_vars
    /\ [][(mode = "catchup" /\ Len(blocks') = Tip + 1) =>
             /\ blocks'[Tip + 1].block_hash = SourceHash(chain, Tip + 1)
             /\ blocks'[Tip + 1].previous_block_hash = TipHash]_vars

\* C17 witness: handle_reorg() has been entered on a fork that reaches below
\* H - 2, with local blocks that the source still shares.
C17_Witness ==
    /\ ForkBelowTip
    /\ Tip >= 4
    /\ SourceHash(chain, Tip - 2) # LocalHash(Tip - 2)
    /\ AgreedAtOrBelow(Tip - 2) >= 1

\* C18: a notification of a block whose declared parent is not the local block
\* below it stores nothing itself and hands over to catch-up or to
\* handle_reorg(); such a block is not in the store until handle_reorg() has
\* run; and a block is only ever stored on top of its declared parent.
C18_DivergingBlockWaitsForReorg ==
    /\ [][\A height \in 1..MaxHeight :
             (ReceiveBlock(height) /\ DivergingParent(height)) =>
                 \/ get_block_by_hash(SourceHash(chain, height)) # {} /\ UNCHANGED vars
                 \/ blocks' = blocks /\ mode' \in {"catchup", "reorg"}]_vars
    /\ [](\A hash \in announced : get_block_by_hash(hash) = {})
    /\ [][Len(blocks') = Tip + 1 =>
             blocks'[Tip + 1].previous_block_hash = TipHash]_vars

\* C18 witness: a block with a diverging parent has been announced, nothing was
\* stored for it and handle_reorg() has been entered.
C18_Witness ==
    /\ announced # {}
    /\ mode = "reorg"
    /\ server = "following"
    /\ \A hash \in announced : get_block_by_hash(hash) = {}

\* some stored block has no ledger_hash
HasEmptyBlock == \E i \in 1..Tip : blocks[i].ledger_hash = NoHash

\* C19: the start-up step that runs rollback_empty_block comes before catch-up;
\* when the last block has no ledger_hash it removes exactly that block and its
\* rows, when every block has one it changes nothing; from then on, until the
\* process dies, no stored block lacks a ledger_hash.
C19_EmptyBlockRolledBackAtStartup ==
    /\ [][(server = "api" /\ server' # "api") =>
             /\ server' = "ready"
             /\ mode = "idle" /\ mode' = "idle"
             /\ IF Tip > 0 /\ blocks[Tip].ledger_hash = NoHash
                THEN /\ blocks' = SubSeq(blocks, 1, Tip - 1)
                     /\ KeepsExactlyBelow(transactions, transactions', Tip)
                     /\ KeepsExactlyBelow(messages, messages', Tip)
                ELSE UNCHANGED storeVars
             /\ ~HasEmptyBlock']_vars
    /\ [](server \in {"ready", "catching", "following"} => ~HasEmptyBlock)
    /\ [][mode' = "catchup" => server' \in {"ready", "catching", "following"}]_vars

\* C19 witness: after a crash in the middle of a block the server has been
\* restarted, rollback_empty_block has removed the block and catch-up has
\* stored it again, whole.
C19_Witness ==
    /\ crashes >= 1
    /\ printed = "Ledger hashes are empty"
    /\ server = "following"
    /\ Tip >= 2
    /\ ~HasEmptyBlock

\* ---- claims about the consensus verifier ----

\* C20: a call that finds a stored hash for the field, and has a previous hash to
\* fold, ends in ConsensusError (inconsistent hash) exactly when the hash it
\* computes differs from the stored one; otherwise it returns the computed hash.
C20_StoredHashMustMatch ==
    (/\ verifier.done
     /\ verifier.found_hash # NoHash
     /\ ResolvedPrevious(verifier) # NoHash)
    => LET computed == consensus_hash(ResolvedPrevious(verifier), verifier.content)
       IN IF computed = verifier.found_hash
          THEN /\ verifier.error # "Inconsistent hash"
               /\ verifier.error = "none" => verifier.calculated_hash = computed
               /\ verifier.block_index \notin DOMAIN verifier.checkpoints => verifier.error = "none"
          ELSE verifier.error = "Inconsistent hash" /\ verifier.calculated_hash = NoHash

\* C20 witness: a call over a stored hash that differs from the computed one has
\* ended in the error.
C20_Witness ==
    /\ verifier.done
    /\ verifier.found_hash # NoHash
    /\ ResolvedPrevious(verifier) # NoHash
    /\ verifier.found_hash # consensus_hash(ResolvedPrevious(verifier), verifier.content)
    /\ verifier.error = "Inconsistent hash"

\* the hash a finished call computed, whether it returned it or raised
Computed(call) == consensus_hash(ResolvedPrevious(call), call.content)

\* C21: a call that gets past the previous-hash and stored-hash checks ends in
\* ConsensusError (incorrect checkpoint hash) exactly when the current block index
\* is in the checkpoint table with a hash other than the computed one; for a
\* block index outside the table no call ends in that error.
C21_CheckpointMustMatch ==
    /\ (/\ verifier.done
        /\ ResolvedPrevious(verifier) # NoHash
        /\ verifier.found_hash \in {NoHash, Computed(verifier)})
       => IF /\ verifier.block_index \in DOMAIN verifier.checkpoints
             /\ verifier.checkpoints[verifier.block_index] # Computed(verifier)
          THEN verifier.error = "Incorrect checkpoint hash" /\ verifier.calculated_hash = NoHash
          ELSE verifier.error = "none" /\ verifier.calculated_hash = Computed(verifier)
    /\ (verifier.done /\ verifier.block_index \notin DOMAIN verifier.checkpoints)
       => verifier.error # "Incorrect checkpoint hash"

\* C21 witness: a call on a checkpoint block whose table holds another hash has
\* ended in the checkpoint error, the table holding other blocks as well.
C21_Witness ==
    /\ verifier.done
    /\ verifier.error = "Incorrect checkpoint hash"
    /\ DOMAIN verifier.checkpoints = CheckpointBlocks
    /\ verifier.checkpoints[verifier.block_index] # Computed(verifier)

\* ---- claims about the transaction envelope ----

\* a transaction parse_tx has to turn down
Unsupported(tx) ==
    \/ \E i \in 1..Len(tx.source) : tx.source[i] = "-"
    \/ \E i \in 1..Len(tx.destination) : tx.destination[i] = "-"
    \/ Len(tx.source) = 0
    \/ Len(tx.data) < 4
    \/ \A id \in InterpreterIds :
          id # tx.data[1] * 16777216 + tx.data[2] * 65536 + tx.data[3] * 256 + tx.data[4]

Raising(tx) == tx.raises /\ ~Unsupported(tx)
HasRaising(txs) == \E i \in 1..Len(txs) : Raising(txs[i])

\* C23: when the interpreter of some transaction of the block raises, the step
\* ends in ParseTransactionError, catch-up is halted and nothing of the block
\* is stored; a halted catch-up stays halted; no stored block holds such a
\* transaction.
C23_InterpreterErrorHalts ==
    /\ [][(mode = "catchup" /\ Tip < target /\ HasRaising(chain[Tip + 1])) =>
             /\ mode' = "halted"
             /\ printed' = "ParseTransactionError"
             /\ UNCHANGED storeVars]_vars
    /\ [][mode = "halted" => (mode' = "halted" /\ UNCHANGED storeVars)]_vars
    /\ [](mode = "halted" => printed = "ParseTransactionError")
    /\ [](\A b \in 1..Tip : ~HasRaising(chain[b]))

\* C23 witness: catch-up has halted on a block after storing an earlier one that
\* left events in the journal.
C23_Witness ==
    /\ mode = "halted"
    /\ printed = "ParseTransactionError"
    /\ Tip >= 1
    /\ messages # <<>>
    /\ HasRaising(chain[Tip + 1])
    /\ Tip + 1 < NumBlocks

\* ---- claims about the caches called on their own ----

\* the map of the UTXO cache before and after a step
UtxoMap == utxo_cache.utxos_with_balance

\* C24: remove_balance(u) right after add_balance(u) leaves u in the map with
\* False and has_balance(u) false; cleanup_spent_utxos() leaves exactly the
\* entries that were True, as True.
C24_RemovedThenPurged ==
    /\ [][\A u \in CacheUtxos :
             (/\ cachecall.op = "add_balance" /\ cachecall.arg = u
              /\ cachecall'.op = "remove_balance" /\ cachecall'.arg = u) =>
                 /\ UtxoMap[u] = TRUE
                 /\ u \in DOMAIN UtxoMap'
                 /\ UtxoMap'[u] = FALSE
                 /\ has_balance(utxo_cache', balances', u) = FALSE
                 /\ \A k \in DOMAIN UtxoMap \ {u} :
                       k \in DOMAIN UtxoMap' /\ UtxoMap'[k] = UtxoMap[k]]_vars
    /\ [][cachecall'.op = "cleanup_spent_utxos" =>
             /\ DOMAIN UtxoMap' = {k \in DOMAIN UtxoMap : UtxoMap[k] = TRUE}
             /\ \A k \in DOMAIN UtxoMap' : UtxoMap'[k] = TRUE]_vars

\* C24 witness: u1 was added, then removed, then the purge was run; u1 is gone
\* and u2 is still there with True.
C24_Witness ==
    /\ cachecall.log = << <<"add_balance", "u1">>, <<"remove_balance", "u1">>,
                          <<"cleanup_spent_utxos", "none">> >>
    /\ "u1" \notin DOMAIN UtxoMap
    /\ "u2" \in DOMAIN UtxoMap
    /\ UtxoMap["u2"] = TRUE

\* table balances holds a row with a positive quantity for the UTXO
StoreHasBalance(u) == \E i \in 1..Len(balances) : balances[i].utxo = u /\ balances[i].quantity > 0

\* C25: has_balance(u) for a u that is not in the map returns what the store
\* says; it adds u, as True, only when the store says yes, and leaves the map as
\* it is when the store says no; for a u in the map it returns the entry and
\* leaves the map as it is.  The map never gains an entry from a lookup
\* answered with False.
C25_NegativeLookupNotCached ==
    /\ [][\A u \in CacheUtxos :
             (cachecall'.op = "has_balance" /\ cachecall'.arg = u) =>
                 IF u \in DOMAIN UtxoMap
                 THEN cachecall'.returned = UtxoMap[u] /\ UNCHANGED utxo_cache
                 ELSE IF StoreHasBalance(u)
                 THEN /\ cachecall'.returned = TRUE
                      /\ DOMAIN UtxoMap' = DOMAIN UtxoMap \cup {u}
                      /\ UtxoMap'[u] = TRUE
                      /\ \A k \in DOMAIN UtxoMap : UtxoMap'[k] = UtxoMap[k]
                 ELSE cachecall'.returned = FALSE /\ UNCHANGED utxo_cache]_vars
    /\ [][(cachecall'.op = "has_balance" /\ cachecall'.returned = FALSE) =>
             DOMAIN UtxoMap' = DOMAIN UtxoMap]_vars

\* C25 witness: after a lookup of u1 that left u1 in the map, the lookup of u2,
\* which the store does not hold with a balance, returned False and u2 is not
\* in the map.
C25_Witness ==
    /\ cachecall.op = "has_balance"
    /\ cachecall.arg = "u2"
    /\ cachecall.returned = FALSE
    /\ "u2" \notin DOMAIN UtxoMap
    /\ ~StoreHasBalance("u2")
    /\ Len(cachecall.log) >= 2
    /\ cachecall.log[Len(cachecall.log) - 1] = <<"has_balance", "u1">>
    /\ "u1" \in DOMAIN UtxoMap

\* ---- claims about the construction of the UTXO cache ----

\* the transactions of the traversed types whose source list holds u
ConsumersOf(u) ==
    {i \in 1..Len(transactions) :
        /\ transactions[i].transaction_type \in TraversedTypes
        /\ u \in Range(transactions[i].sources)}

\* C26: after the startup traversal from the known-source seeds, every UTXO the
\* traversal reached that is in the source list of a utxomove, attach or detach
\* transaction is absent from the cache; the destination of each transaction
\* consuming it that is not a detach is present (unless a later transaction
\* consumed that destination in turn); and the destination of a detach is not
\* added: it is in the cache only if it was there before the traversal.
C26_TraversalFollowsSourceLists ==
    traversal.phase = "done" =>
        \A u \in traversal.processed :
            /\ ConsumersOf(u) # {} => u \notin DOMAIN utxo_cache.utxos_with_balance
            /\ \A i \in ConsumersOf(u) :
                  LET tx == transactions[i]
                  IN /\ (tx.transaction_type # "detach" /\ tx.destination # ""
                         /\ ConsumersOf(tx.destination) = {})
                        => /\ tx.destination \in DOMAIN utxo_cache.utxos_with_balance
                           /\ utxo_cache.utxos_with_balance[tx.destination]
                     /\ (tx.transaction_type = "detach" /\ tx.destination # ""
                         /\ tx.destination \in DOMAIN utxo_cache.utxos_with_balance)
                        => tx.destination \in traversal.before

\* ---- claims about the asset cache called on its own ----

\* the calls of op so far that count for asset a: valid, with a quantity
CountedCalls(op, a) ==
    {i \in 1..Len(cachecall.log) :
        /\ cachecall.log[i][1] = op
        /\ cachecall.log[i][2].asset = a
        /\ cachecall.log[i][2].status = "valid"
        /\ "quantity" \in DOMAIN cachecall.log[i][2]}

RECURSIVE SumOfCalls(_)
SumOfCalls(S) ==
    IF S = {} THEN 0
    ELSE LET i == CHOOSE x \in S : TRUE
         IN cachecall.log[i][2].quantity + SumOfCalls(S \ {i})

\* the total of asset a is what the store gave at construction plus the calls
\* that count; an asset with neither has no total
TotalIsSum(totals, constructed, op, a) ==
    IF a \in DOMAIN constructed \/ CountedCalls(op, a) # {}
    THEN /\ a \in DOMAIN totals
         /\ totals[a] = (IF a \in DOMAIN constructed THEN constructed[a] ELSE 0)
                        + SumOfCalls(CountedCalls(op, a))
    ELSE a \notin DOMAIN totals

\* C27: after any sequence of add_issuance calls the total issued of an asset is
\* its value at construction plus the quantities of the calls for it whose
\* status is 'valid'; a call with another status changes nothing; the same for
\* add_destroyed and the total destroyed.
C27_TotalsSumValidCalls ==
    /\ [](\A a \in {"FOO", "A1"} :
            /\ TotalIsSum(asset_cache.assets_total_issued, ValidTotals(issuances),
                          "add_issuance", a)
            /\ TotalIsSum(asset_cache.assets_total_destroyed, ValidTotals(destructions),
                          "add_destroyed", a))
    /\ [][(/\ Len(cachecall'.log) > Len(cachecall.log)
           /\ cachecall'.op \in {"add_issuance", "add_destroyed"}
           /\ cachecall'.arg.status # "valid")
          => asset_cache' = asset_cache]_(Len(cachecall.log))

\* C27 witness: over a store where FOO was issued, two valid issuances of 2 and
\* then an invalid one leave the total at the constructed value plus 4
C27_Witness ==
    /\ "FOO" \in DOMAIN ValidTotals(issuances)
    /\ Len(cachecall.log) = 3
    /\ \A i \in 1..3 : cachecall.log[i][1] = "add_issuance"
    /\ cachecall.log[1][2] = [asset |-> "FOO", status |-> "valid", quantity |-> 2]
    /\ cachecall.log[2][2] = [asset |-> "FOO", status |-> "valid", quantity |-> 2]
    /\ cachecall.log[3][2] = [asset |-> "FOO", status |-> "invalid", quantity |-> 2]
    /\ asset_cache.assets_total_issued["FOO"] = ValidTotals(issuances)["FOO"] + 4

\* the valid issuances of the store that get_asset(name) asks for: by longname
\* when the name has a ".", by asset otherwise
StoreMatches(name) ==
    {i \in 1..Len(issuances) :
        /\ issuances[i].status = "valid"
        /\ IF name \in DottedNames
           THEN "asset_longname" \in DOMAIN issuances[i] /\ issuances[i].asset_longname = name
           ELSE issuances[i].asset = name}

\* C28: get_asset(name) returns the cached row when name is in the map; on a
\* miss it returns the valid issuance of the store with the highest tx_index,
\* by longname if name has a ".", else by asset, and caches it under name; when
\* there is none it returns None and adds no entry.
C28_GetAssetCachesFoundOnly ==
    [][(Len(cachecall'.log) > Len(cachecall.log) /\ cachecall'.op = "get_asset")
       => LET name == cachecall'.arg
              found == StoreMatches(name)
          IN /\ asset_cache'.assets_total_issued = asset_cache.assets_total_issued
             /\ asset_cache'.assets_total_destroyed = asset_cache.assets_total_destroyed
             /\ IF name \in DOMAIN asset_cache.assets
                THEN /\ cachecall'.returned = {asset_cache.assets[name]}
                     /\ asset_cache' = asset_cache
                ELSE IF found = {}
                THEN /\ cachecall'.returned = {}
                     /\ asset_cache' = asset_cache
                ELSE /\ DOMAIN asset_cache'.assets = DOMAIN asset_cache.assets \cup {name}
                     /\ \E i \in found :
                          /\ \A j \in found : issuances[j].tx_index <= issuances[i].tx_index
                          /\ cachecall'.returned = {issuances[i]}
                          /\ asset_cache'.assets[name] = issuances[i]
                     /\ \A k \in DOMAIN asset_cache.assets :
                           asset_cache'.assets[k] = asset_cache.assets[k]]_(Len(cachecall.log))

\* C28 witness: the first call asks for FOO.sub, which the constructed cache does
\* not hold; the store's latest valid row with that longname, of tx_index 2, is
\* returned and is now cached under FOO.sub
C28_Witness ==
    /\ Len(issuances) = 3
    /\ "FOO.sub" \notin DOMAIN AssetCacheInit(issuances, destructions).assets
    /\ Len(cachecall.log) = 1
    /\ cachecall.op = "get_asset" /\ cachecall.arg = "FOO.sub"
    /\ cachecall.returned = {issuances[2]}
    /\ "FOO.sub" \in DOMAIN asset_cache.assets
    /\ asset_cache.assets["FOO.sub"] = issuances[2]

\* ---- claims about the orders cache called on its own ----

\* the rows of the cache with a tx_hash
RowsOf(rows, tx_hash) == {i \in 1..Len(rows) : rows[i].tx_hash = tx_hash}

\* a call on the orders cache was made in this step
OrdersCall(op) == Len(cachecall'.log) > Len(cachecall.log) /\ cachecall'.op = op

Swept(rows, block_index) ==
    {i \in 1..Len(rows) : rows[i].status = "filled" /\ rows[i].block_index < block_index - 50}

\* C30: clean_filled_orders deletes rows only when at least 50 blocks have passed
\* since the last sweep; when it runs it deletes exactly the filled rows with
\* block_index below the current block minus 50 and records the current block
\* as the last sweep; rows that are not filled are never removed by it.
C30_SweepEveryFiftyBlocks ==
    /\ [][OrdersCall("clean_filled_orders")
          => LET now == current_state.current_block_index
                 rows == orders_cache.rows
             IN IF now - orders_cache.last_cleaning_block_index < 50
                THEN orders_cache' = orders_cache
                ELSE /\ orders_cache'.last_cleaning_block_index = now
                     /\ orders_cache'.rows
                           = SelectSeq(rows, LAMBDA r : ~(r.status = "filled"
                                                          /\ r.block_index < now - 50))
         ]_(Len(cachecall.log))
    /\ [][(OrdersCall("clean_filled_orders") \/ OrdersCall("insert_order")
           \/ (OrdersCall("update_order") /\ cachecall'.arg.order.status # "expired"))
          => LET now == current_state.current_block_index
                 rows == orders_cache.rows
                 due == now - orders_cache.last_cleaning_block_index >= 50
             IN /\ orders_cache'.last_cleaning_block_index
                      # orders_cache.last_cleaning_block_index
                   => due /\ orders_cache'.last_cleaning_block_index = now
                /\ \A i \in 1..Len(rows) :
                      RowsOf(orders_cache'.rows, rows[i].tx_hash) = {}
                      => due /\ rows[i].status = "filled" /\ rows[i].block_index < now - 50
         ]_(Len(cachecall.log))

\* C30 witness: a filled and an open order were inserted in block 10; the sweep
\* called in block 70, the first one due, removed the filled one only
C30_Witness ==
    /\ Len(cachecall.log) = 3
    /\ cachecall.log[1][1] = "insert_order" /\ cachecall.log[2][1] = "insert_order"
    /\ cachecall.log[1][2].order = [tx_hash |-> "o1", block_index |-> 10,
                                    status |-> "filled", give_remaining |-> 1]
    /\ cachecall.log[2][2].order = [tx_hash |-> "o2", block_index |-> 10,
                                    status |-> "open", give_remaining |-> 1]
    /\ cachecall.log[3][1] = "clean_filled_orders"
    /\ cachecall.log[3][2].current_block_index = 70
    /\ orders_cache.last_cleaning_block_index = 70
    /\ Len(orders_cache.rows) = 1
    /\ orders_cache.rows[1].tx_hash = "o2"

\* ---- claims about get_matching_orders ----

\* the cached rows a query is to get
Counterparts(tx_hash, give_asset, get_asset) ==
    {i \in 1..Len(orders_cache.rows) :
        /\ orders_cache.rows[i].status = "open"
        /\ orders_cache.rows[i].tx_hash # tx_hash
        /\ orders_cache.rows[i].give_asset = get_asset
        /\ orders_cache.rows[i].get_asset = give_asset}

\* C31: get_matching_orders(tx_hash, give_asset, get_asset) returns exactly the
\* cached rows with status 'open', another tx_hash, give_asset equal to the
\* query's get_asset and get_asset equal to its give_asset, each once, sorted by
\* (tx_index, tx_hash).
C31_MatchingOrdersSwappedAndSorted ==
    cachecall.op = "get_matching_orders" =>
        LET got == cachecall.returned
            want == Counterparts(cachecall.arg.tx_hash, cachecall.arg.give_asset,
                                 cachecall.arg.get_asset)
        IN /\ {got[i] : i \in 1..Len(got)} = {orders_cache.rows[i] : i \in want}
           /\ Len(got) = Cardinality(want)
           /\ \A i \in 1..Len(got) : \A j \in (i + 1)..Len(got) :
                 \/ got[i].tx_index < got[j].tx_index
                 \/ /\ got[i].tx_index = got[j].tx_index
                    /\ HashRank[got[i].tx_hash] < HashRank[got[j].tx_hash]

\* C31 witness: the book holds three orders inserted against their order; the
\* query of o3 got the two others, the one of lower tx_index first
C31_Witness ==
    /\ cachecall.op = "get_matching_orders"
    /\ cachecall.arg.tx_hash = "o3"
    /\ Len(orders_cache.rows) = 3
    /\ orders_cache.rows[1].tx_hash = "o2" /\ orders_cache.rows[1].tx_index = 2
    /\ orders_cache.rows[2].tx_hash = "o3"
    /\ orders_cache.rows[3].tx_hash = "o1" /\ orders_cache.rows[3].tx_index = 1
    /\ Len(cachecall.returned) = 2
    /\ cachecall.returned[1].tx_hash = "o1"
    /\ cachecall.returned[2].tx_hash = "o2"

\* ---- claims about the follower ----

\* the batch as need_to_parse_mempool_block() found it in the step
ExaminedBatch ==
    IF Len(watcher'.parsed) > Len(watcher.parsed)
    THEN Last(watcher'.parsed)
    ELSE watcher'.mempool_block

BothArrived(tx) ==
    /\ Len(watcher.received) = 2
    /\ {watcher.received[1], watcher.received[2]} =
           {[topic |-> "hashtx", tx |-> tx], [topic |-> "rawtx", tx |-> tx]}

\* C33: once the hash notification and the payload notification of one
\* transaction were both processed, in either order, neither hash_by_sequence
\* nor raw_tx_cache holds an entry of that transaction: the first arrival was
\* stored and the second removed it.
C33_NoEntryAfterBothArrivals ==
    \A tx \in MempoolTxs :
        BothArrived(tx) =>
            /\ SequenceOf[tx] \notin SequenceKeys(watcher.hash_by_sequence)
            /\ tx \notin watcher.raw_tx_cache

\* the failures of the transport processed so far, "no message" left out
HardFailures ==
    {i \in 1..Len(watcher.received) :
        watcher.received[i].topic = "error" /\ watcher.received[i].tx # "EAGAIN"}

C35_StatsReportCountersPeakMonotone ==
    /\ [](peak_connection_count >= connection_count)
    /\ [](stats.calls > 0 =>
            /\ stats.peak >= stats.current
            /\ stats.max = max_connections
            /\ stats.peak <= peak_connection_count
            /\ stats.max = 0 => stats.utilization = 0
            /\ stats.max > 0 => stats.utilization = (stats.current * 100) \div stats.max)
    /\ [][/\ peak_connection_count' >= peak_connection_count
          /\ stats'.peak >= stats.peak
          /\ stats'.calls > stats.calls =>
                /\ stats'.current = connection_count
                /\ stats'.peak = peak_connection_count]_<<poolVars, stats>>

\* C35 witness: a pool without a limit had two connections counted and one
\* released; get_stats() returned current 1, peak 2 and utilization 0
C35_Witness ==
    /\ stats.calls > 0
    /\ stats.max = 0
    /\ stats.current = 1
    /\ stats.peak = 2
    /\ stats.utilization = 0
    /\ connection_count = 1

\* the open connections the pool created for its callers to share
OpenPooled == {i \in DOMAIN conns : conns[i].pooled}

\* no thread is between counting a connection and opening it, or between
\* closing one and releasing its count
NoRequestUnderWay == \A t \in Threads : pc[t] = "idle"

\* C36: whenever no request is under way, connection_count is the number of
\* open pooled connections, those checked out and those cached on the stacks of
\* the threads; also after a cached connection failed its validation and was
\* replaced, and after close() cleared the stack of a thread.
C36_CountEqualsOpenPooled ==
    NoRequestUnderWay => connection_count = Cardinality(OpenPooled)

\* ---- claims about the end of the known-source traversal ----

\* C37: the traversal of the descendants of the known sources comes to its end
\* over every table of transactions, also when destinations form a cycle or
\* several transactions have the same destination, and it asks the store about
\* no UTXO twice.
C37_TraversalTerminatesQueriesOnce ==
    /\ <>(traversal.phase = "done")
    /\ [](traversal.requeried = {})

\* C37 witness: the known source created a:1, a:1 was moved to b:0 and b:0 back
\* to a:1; the traversal went through both and ended
C37_Witness ==
    /\ traversal.phase = "done"
    /\ traversal.processed = {"a:1", "b:0"}
    /\ Len(transactions) = 3
    /\ transactions[1].destination = "a:1"
    /\ transactions[2].sources = <<"a:1">> /\ transactions[2].destination = "b:0"
    /\ transactions[2].transaction_type = "utxomove"
    /\ transactions[3].sources = <<"b:0">> /\ transactions[3].destination = "a:1"
    /\ transactions[3].transaction_type = "utxomove"

\* ---- claims about the statuses the orders cache holds ----

C39_ShutdownSequenceAtMostOnce ==
    threads.sequences <= 1

\* C40: when the server thread ends, run() has interrupted the main thread,
\* whether run_server() raised or returned; start_all() leaves its try block
\* only into the finally block, which calls stop(); so the end of the server
\* thread leads to a call of stop() by start_all(), and start_all() never
\* returns, and never raises, without having called stop().
C40_ServerEndInterruptsMainStopCalled ==
    /\ [][(threads'.server = "ended" /\ threads.server # "ended")
             => threads'.interrupt = "pending"]_threads
    /\ [][(threads.main = "loop" /\ threads'.main # "loop")
             => threads'.main = "finally"]_threads
    /\ [][(threads.main = "finally" /\ threads'.main # "finally")
             => /\ threads'.main = "stop_check"
                /\ threads'.stop_calls = threads.stop_calls + 1]_threads
    /\ [](threads.main \in {"returned", "raised"} => threads.stop_calls >= 1)
    /\ (threads.server = "ended") ~> (threads.stop_calls >= 1)

\* C40 witness: run_server() raised, the main thread was interrupted in its
\* loop, called stop(), which ran the shutdown sequence, and returned
C40_Witness ==
    /\ threads.server = "ended"
    /\ threads.ended = "exception"
    /\ threads.interrupt = "delivered"
    /\ ~threads.shutdown_event
    /\ threads.main = "returned"
    /\ threads.stop_calls = 1
    /\ threads.sequences = 1
    /\ threads.stopped

====
